---- MODULE Spec2Model ----
(***************************************************************************)
(* FederalRunner wizard execution engine                                   *)
(* (mcp-servers/federalrunner-mcp/src/playwright_client.py and             *)
(* execution_tools.py).  One task is one call of                           *)
(* federalrunner_execute_wizard: it builds its own PlaywrightClient and    *)
(* runs execute_wizard_atomically.  The browser, the live page and the     *)
(* target site are the environment: each browser operation either returns  *)
(* or raises, chosen nondeterministically.                                 *)
(***************************************************************************)
EXTENDS Integers, Sequences, FiniteSets, TLC

\* ------------------------------------------------------------------ bounds
MaxPages == 2
MaxFields == 2
MaxItems == 2
MaxActions == 2

\* -------------------------------------------------------- program constants
\* range(max_retries) in place of range(max_retries + 1): one attempt short.
max_retries_short == 4 - 1
\* max_retries = 4  (5 total attempts: initial + 4 retries)
max_retries == 4

\* "5 total attempts (initial + 4 retries)"
TotalAttempts == 5

Tasks == {1, 2}

\* ------------------------------------------------------------------- values
\* Python values that reach the engine through field_values.  t is the type
\* tag: "none" (None), "str", "bool", "list" (list of item dicts).
NoneVal == [t |-> "none", s |-> << >>, b |-> FALSE, items |-> << >>]
StrVal(s) == [t |-> "str", s |-> s, b |-> FALSE, items |-> << >>]
BoolVal(b) == [t |-> "bool", s |-> << >>, b |-> b, items |-> << >>]
ListVal(items) == [t |-> "list", s |-> << >>, b |-> FALSE, items |-> items]

\* Strings are sequences of characters.  Apos is the ASCII apostrophe, RSQ
\* stands for U+2019 (right single quotation mark).
Apos == "'"
RSQ == "U+2019"

\* A replace that leaves the string as it is.
ReplaceNothing(s) == s
\* value_str.replace("'", "’")
ReplaceApos(s) == [i \in 1..Len(s) |-> IF s[i] = Apos THEN RSQ ELSE s[i]]

\* str(value)
Str(v) == IF v.t = "str" THEN v.s
          ELSE IF v.t = "bool" THEN (IF v.b THEN <<"True">> ELSE <<"False">>)
          ELSE IF v.t = "none" THEN <<"None">>
          ELSE <<"[...]">>

\* ------------------------------------------------------- structure model
NoSelector == << >>

SubField(id, inter) ==
  [field_id |-> <<"sub", id>>, selector |-> <<"#sub", id>>, interaction |-> inter]

\* A field declared at position i of page p.  kind carries the declared
\* field_type, interaction, required flag and, for groups, whether an
\* add_button_selector is declared and the sub_fields.
Field(kind, p, i) ==
  [field_id |-> <<"f", p, i>>,
   selector |-> <<"#f", p, i>>,
   interaction |-> kind.interaction,
   field_type |-> kind.field_type,
   required |-> kind.required,
   add_button_selector |-> IF kind.add_button THEN <<"#add", p, i>> ELSE NoSelector,
   sub_fields |-> kind.sub_fields]

Kind(ft, inter, req) ==
  [interaction |-> inter, field_type |-> ft, required |-> req,
   add_button |-> FALSE, sub_fields |-> << >>]

GroupKind(req, add, subs) ==
  [interaction |-> "click", field_type |-> "group", required |-> req,
   add_button |-> add, sub_fields |-> subs]

LoanSubFields == << SubField(1, "fill"), SubField(2, "select") >>

\* Selector types of continue buttons and start actions.
SelectorTypes == <<"text", "id", "css">>

\* ------------------------------------------------------------------ inputs
\* A case is one declared field together with what the value map holds for
\* its selector: present = FALSE when the selector is not a key of the map.
Case(kind, present, value) == [kind |-> kind, present |-> present, value |-> value]

Word == <<"v">>
Plain == <<"a">>
Ascii == <<"a", Apos>>
Typographic == <<"a", RSQ>>

\* Cases used on multi-page structures.
EngineCases ==
  { Case(Kind("text", "fill", TRUE), TRUE, StrVal(Word)),
    Case(Kind("text", "fill", TRUE), FALSE, NoneVal),
    Case(Kind("number", "fill", TRUE), TRUE, NoneVal),
    Case(Kind("text", "fill", FALSE), FALSE, NoneVal) }

\* The interaction kinds a sub-field can declare besides fill and select.
OtherSubKinds == {"fill_enter", "click", "javascript_click"}

\* Item dicts of a repeatable field: sub field_id -> value.
ItemFull == [id \in {<<"sub", 1>>, <<"sub", 2>>} |->
               IF id[2] = 1 THEN StrVal(Word) ELSE StrVal(Ascii)]
ItemPartial == [id \in {<<"sub", 1>>} |-> StrVal(Word)]
Items == {ItemFull, ItemPartial}
ItemLists == UNION {[1..n -> Items] : n \in 0..MaxItems}

\* Cases used on single-field structures: every interaction kind.
FieldCases ==
  EngineCases
  \cup { Case(Kind("select", "select", TRUE), TRUE, StrVal(s)) :
           s \in {Plain, Ascii, Typographic} }
  \cup { Case(Kind("radio", "javascript_click", FALSE), TRUE, BoolVal(TRUE)),
         Case(Kind("typeahead", "fill_enter", FALSE), TRUE, StrVal(Word)),
         Case(Kind("checkbox", "click", FALSE), TRUE, BoolVal(FALSE)),
         Case(Kind("checkbox", "click", FALSE), TRUE, NoneVal) }
  \cup { Case(GroupKind(TRUE, TRUE, LoanSubFields), TRUE, ListVal(l)) :
           l \in ItemLists }
  \cup { Case(GroupKind(TRUE, TRUE, LoanSubFields), FALSE, NoneVal),
         Case(GroupKind(TRUE, FALSE, LoanSubFields), TRUE, ListVal(<< >>)),
         Case(GroupKind(FALSE, FALSE, LoanSubFields), TRUE, ListVal(<<ItemFull>>)),
         Case(GroupKind(FALSE, FALSE, LoanSubFields), TRUE, StrVal(Word)) }
  \cup { Case(GroupKind(TRUE, TRUE, << SubField(1, k) >>), TRUE,
               ListVal(<< ItemPartial >>)) : k \in OtherSubKinds }

CaseSeqs(cases, n) == UNION {[1..k -> cases] : k \in 0..n}

\* Page layouts: n pages carrying at most budget fields in all.
RECURSIVE LayoutsOf(_, _, _)
LayoutsOf(cases, n, budget) ==
  IF n = 0 THEN { << >> }
  ELSE UNION { { <<first>> \o rest :
                   rest \in LayoutsOf(cases, n - 1, budget - Len(first)) } :
               first \in CaseSeqs(cases, budget) }
Layouts(cases, maxPages, maxFields) ==
  UNION { LayoutsOf(cases, n, maxFields) : n \in 1..maxPages }

\* WizardStructure: total_pages == len(pages), page numbers 1..total_pages.
Wizard(layout, start) ==
  [wizard_id |-> "wizard",
   total_pages |-> Len(layout),
   start_action |-> start,
   pages |-> [p \in 1..Len(layout) |->
     [page_number |-> p,
      fields |-> [i \in 1..Len(layout[p]) |-> Field(layout[p][i].kind, p, i)],
      continue_button |->
        [selector |-> <<"continue", p>>,
         selector_type |-> SelectorTypes[((p - 1) % 3) + 1]]]]]

\* FieldValues: selector -> value, for the selectors that have an entry.
FieldValues(layout) ==
  LET keys == UNION { {<<"#f", p, i>> :
                         i \in {j \in 1..Len(layout[p]) : layout[p][j].present}} :
                      p \in 1..Len(layout) }
  IN [sel \in keys |-> layout[sel[2]][sel[3]].value]

NoStartAction == [selector |-> NoSelector, selector_type |-> "none"]
BeginButton == [selector |-> <<"Start">>, selector_type |-> "text"]

\* The target site as one execution meets it: how many consecutive goto
\* calls fail before one returns, and whether screenshot captures can fail.
Site(goto_failures, captures_fail) ==
  [goto_failures |-> goto_failures, captures_fail |-> captures_fail]
Stable == Site(0, FALSE)

Input(layout, start, site) ==
  [site |-> site,
   wizard_structure |-> Wizard(layout, start),
   field_values |-> FieldValues(layout)]

StartActions == {NoStartAction, BeginButton}

\* Multi-page structures over the simple cases on a stable site.
EngineInputs ==
  {Input(l, st, Stable) : l \in Layouts(EngineCases, MaxPages, MaxFields),
                          st \in StartActions}
\* One-page one-field structures over every case on a stable site.
FieldInputs ==
  {Input(l, NoStartAction, Stable) : l \in Layouts(FieldCases, 1, 1)}
\* One-page structures on a site whose navigation fails 1..5 times in a row.
NavigationInputs ==
  {Input(l, st, Site(n, FALSE)) : l \in Layouts(EngineCases, 1, 1),
                                  st \in StartActions, n \in 1..TotalAttempts}
\* One-page structures on a site where screenshot captures can fail.
CaptureInputs ==
  {Input(l, st, Site(0, TRUE)) : l \in Layouts(EngineCases, 1, 1),
                                 st \in StartActions}

\* sorted(list) of a list of integers.
RECURSIVE Insert(_, _)
Insert(x, seq) ==
  IF seq = << >> THEN << x >>
  ELSE IF x <= Head(seq) THEN << x >> \o seq
  ELSE << Head(seq) >> \o Insert(x, Tail(seq))
RECURSIVE sorted(_)
sorted(seq) == IF seq = << >> THEN << >> ELSE Insert(Head(seq), sorted(Tail(seq)))

\* Every page number lies in 1..len(pages).
NumbersInRange(pages) ==
  \A i \in 1..Len(pages) : pages[i].page_number \in 1..Len(pages)
\* WizardStructure.validate_page_numbers: nothing to check when pages is
\* empty; otherwise sorted(page numbers) == list(range(1, len(pages) + 1)).
validate_page_numbers(pages) ==
  \/ pages = << >>
  \/ sorted([i \in 1..Len(pages) |-> pages[i].page_number])
       = [i \in 1..Len(pages) |-> i]
\* The structure with its pages numbered by numbers, list order unchanged.
Renumbered(wizard, numbers) ==
  [wizard EXCEPT !.pages =
     [i \in 1..Len(wizard.pages) |-> [wizard.pages[i] EXCEPT !.page_number = numbers[i]]]]
\* Structures of empty pages that validation accepts although their pages
\* are not listed in ascending page_number, on a stable site.
PermutedInputs ==
  { [Input(l, NoStartAction, Stable) EXCEPT !.wizard_structure = Renumbered(@, numbers)] :
      <<l, numbers>> \in
        { ln \in UNION { {[i \in 1..n |-> << >>]} \X [1..n -> 1..n] : n \in 2..MaxPages } :
            /\ validate_page_numbers(Renumbered(Wizard(ln[1], NoStartAction), ln[2]).pages)
            /\ \E i \in 1..Len(ln[2]) : ln[2][i] # i } }
\* Every input of a call, as one enumerated set.
Inputs ==
  {in : in \in EngineInputs \cup FieldInputs \cup NavigationInputs
                \cup CaptureInputs \cup PermutedInputs}

\* "field_values.get(selector) or None": a falsy value reads as no value.
GetTruthy(fv, sel) ==
  IF sel \in DOMAIN fv /\ ~(fv[sel].t = "list" /\ fv[sel].items = << >>)
                       /\ ~(fv[sel].t = "bool" /\ ~fv[sel].b)
  THEN fv[sel] ELSE NoneVal
\* field_values.get(selector)
Get(fv, sel) == IF sel \in DOMAIN fv THEN fv[sel] ELSE NoneVal

\* ------------------------------------------------------- the live page
\* An <option> of a live <select>: its value attribute and its text.
Option(v, l) == [value |-> v, label |-> l]
Code == <<"code">>
LiveSelects ==
  { {},
    {Option(Plain, Plain)},
    {Option(Ascii, Ascii)},
    {Option(Typographic, Typographic)},
    {Option(Code, Typographic)},
    {Option(Code, Ascii)},
    {Option(Ascii, Typographic)} }

\* page.select_option(selector, value) matches an option by value or label;
\* page.select_option(selector, label=...) matches by label only.
Matches(live, mode, arg) ==
  IF mode = "label" THEN \E o \in live : o.label = arg
  ELSE \E o \in live : o.value = arg \/ o.label = arg

\* ------------------------------------------------- log of browser operations
\* One entry per browser operation: op, the page (or browser, session)
\* handle it acted on, the selector or label, the value, and whether it
\* returned (ok) or raised.
Op(op, page, sel, val, ok) ==
  [sel |-> sel, op |-> op, page |-> page, val |-> val, ok |-> ok]

\* -------------------------------------------------------------- exceptions
\* type is the Python class name; stage is the raising step; field_id and
\* selector are what the message carries; n is the index of the attempt or
\* strategy whose error is carried (0 when there is none).
Exc(type, stage, field_id, selector, n) ==
  [field_id |-> field_id, selector |-> selector, n |-> n,
   type |-> type, stage |-> stage]
NoExc == Exc("none", "none", << >>, << >>, 0)

\* ------------------------------------------------------ select strategies
\* strategies = [("original value", value_str, None), ("unicode apostrophe",
\* value_str.replace(...), None), ("label (original)", None, value_str),
\* ("label (unicode)", None, value_str.replace(...))]
Strategies(value_str) ==
  << [mode |-> "value", arg |-> value_str, name |-> "original value"],
     [mode |-> "value", arg |-> ReplaceApos(value_str), name |-> "unicode apostrophe"],
     [mode |-> "label", arg |-> value_str, name |-> "label (original)"],
     [mode |-> "label", arg |-> ReplaceApos(value_str), name |-> "label (unicode)"] >>

\* The strategy loop without its break: every strategy is called.
RECURSIVE TryEveryStrategy(_, _, _, _, _, _)
TryEveryStrategy(strategies, i, page, sel, live, timeouts) ==
  IF i > Len(strategies) THEN << >>
  ELSE LET st == strategies[i]
           ok == Matches(live, st.mode, st.arg) /\ i \notin timeouts
           entry == Op(IF st.mode = "label" THEN "select_option_label"
                       ELSE "select_option", page, sel, st.arg, ok)
       IN <<entry>> \o TryEveryStrategy(strategies, i + 1, page, sel, live, timeouts)
\* The strategy loop from strategy i on: one select_option call per strategy,
\* break at the first that returns.  A call returns when an option matches
\* and the call does not time out (timeouts: the calls the page lets expire).
RECURSIVE TryStrategies(_, _, _, _, _, _)
TryStrategies(strategies, i, page, sel, live, timeouts) ==
  IF i > Len(strategies) THEN << >>
  ELSE LET st == strategies[i]
           ok == Matches(live, st.mode, st.arg) /\ i \notin timeouts
           entry == Op(IF st.mode = "label" THEN "select_option_label"
                       ELSE "select_option", page, sel, st.arg, ok)
       IN IF ok THEN <<entry>>
          ELSE <<entry>> \o TryStrategies(strategies, i + 1, page, sel, live, timeouts)

\* Select sub-field of a repeatable group: value, then on any error the
\* Unicode-apostrophe value.
SubSelect(value_str, page, sel, live, timeouts) ==
  LET ok1 == Matches(live, "value", value_str) /\ 1 \notin timeouts
      ok2 == Matches(live, "value", ReplaceApos(value_str)) /\ 2 \notin timeouts
  IN IF ok1 THEN << Op("select_option", page, sel, value_str, TRUE) >>
     ELSE << Op("select_option", page, sel, value_str, FALSE),
             Op("select_option", page, sel, ReplaceApos(value_str), ok2) >>

Succeeded(trace) == trace # << >> /\ trace[Len(trace)].ok

\* ------------------------------------------------------------------- state
VARIABLES
  pc,                \* where each task is in execute_wizard_atomically
  headless,          \* self.config.headless of each call's client
  tool_call,         \* the last call of federalrunner_execute_wizard: what it
                     \* found, the steps it took, what it returned by itself
  wizard_structure,  \* argument wizard_structure
  field_values,      \* argument field_values
  site,              \* the target site of the execution
  client,            \* PlaywrightClient objects: playwright, browser, context, page
  browser_state,     \* browsers launched: "none", "open", "closed"
  playwright_state,  \* Playwright sessions: "none", "running", "stopped"
  screenshots,       \* local screenshots
  pages_completed,   \* local pages_completed
  attempt,           \* loop variable of the navigation retry loop
  page_idx,          \* position in wizard_structure.pages
  field_idx,         \* position in page_structure.fields
  item_idx,          \* position in the item list of a repeatable field
  sub_idx,           \* position in field.sub_fields
  exc,               \* the exception on its way to the except block
  result,            \* the returned dict
  live_select,       \* the options the last select interaction found on the page
  ops,               \* browser operations performed so far, in order
  built,             \* the pydantic model last built, or its rejection
  joined,            \* the last mapping of user_data onto a structure
  server_sessions,   \* server.py: the keys of the dict sessions
  session_initialized, \* server.py: the keys of the dict session_initialized
  issued,            \* how many session ids initialize has drawn
  deleted,           \* the session ids DELETE has removed
  http,              \* the last request to the MCP server and its response
  active_sessions,   \* discovery_tools._active_sessions: session_id -> session
  sessions,          \* the BrowserSession objects: client, activity, pages
  close_tasks,       \* session.close() tasks created and not yet run
  scout_call         \* the last discovery tool call and what it returned

vars == << pc, headless, tool_call, wizard_structure, field_values, site, client, browser_state,
           playwright_state, screenshots, pages_completed, attempt, page_idx,
           field_idx, item_idx, sub_idx, exc, result, live_select, ops, built,
           joined, server_sessions, session_initialized, issued, deleted,
           http, active_sessions, sessions, close_tasks, scout_call >>

discoveryVars == << active_sessions, sessions, close_tasks, scout_call >>
serverVars == << server_sessions, session_initialized, issued, deleted, http >>
scoutVars == << built, joined, serverVars, discoveryVars >>
argVars == << headless, tool_call, wizard_structure, field_values, site >>
browserVars == << client, browser_state, playwright_state >>
loopVars == << attempt, page_idx, field_idx, item_idx, sub_idx >>
engineVars == << pc, argVars, browserVars, screenshots, pages_completed, loopVars,
                 exc, result, live_select, ops >>

NoHandle == 0
NoClient == [page |-> NoHandle, playwright |-> NoHandle,
             browser |-> NoHandle, context |-> NoHandle]
NoResult == [pending |-> TRUE]
NoModel == [model |-> "none"]
\* No mapping was made yet.
NoJoin == [fields |-> << >>, field_values |-> << >>, user_data |-> << >>]

\* uuid4 values: every start_discovery draws one never drawn before; the
\* BrowserSession built for it is named by it.
SessionIds == {1, 2}
\* A BrowserSession: its client (the page, the browser and the Playwright
\* session it holds: "none", "open" or "closed"), whether its last activity
\* is older than config.session_timeout, and whether pages_discovered holds a
\* page (the only thing the tools ask of the list).
Session(page_st, browser_st, playwright_st, expired, discovered) ==
  [page |-> page_st, playwright |-> playwright_st, browser |-> browser_st,
   expired |-> expired, discovered |-> discovered, created |-> TRUE]
NoSession == [Session("none", "none", "none", FALSE, FALSE) EXCEPT !.created = FALSE]
\* A discovery tool call: the tool, the session_id it was given, and of the
\* dict it returned: success, error_type, and for a batch completed_count,
\* total_actions, the indices in failed_actions and, in order, what the
\* loop did with each action it went through.
ScoutCall(tool, id, success, error_type, completed, total, failed, attempted) ==
  [tool |-> tool, success |-> success, error_type |-> error_type,
   attempted |-> attempted, session_id |-> id, completed_count |-> completed,
   total_actions |-> total, failed_actions |-> failed]
NoCount == 0 - 1
ToolReturn(tool, id, success, error_type) ==
  ScoutCall(tool, id, success, error_type, NoCount, NoCount, << >>, << >>)
NoScoutCall == ToolReturn("none", NoHandle, FALSE, "none")
\* A request to the MCP server and the response to it: the JSON-RPC method
\* (or "DELETE"), the Mcp-Session-Id header (NoHandle when absent), the
\* bearer token, the kind of response and its MCP-Session-ID header.
Http(method, session_id, token, kind, session_header) ==
  [kind |-> kind, session_id |-> session_id, method |-> method,
   token |-> token, session_header |-> session_header]
NoRequest == Http("none", NoHandle, "missing", "none", NoHandle)
\* One call of the tool: what it found, the steps it took and the dict it
\* returned by itself (NoResult when it returned what the engine returned).
Call(schema, verdict, structure, steps, returned) ==
  [schema |-> schema, verdict |-> verdict, structure |-> structure,
   steps |-> steps, returned |-> returned]
NoCall == Call("found", "valid", "found", << >>, NoResult)
NoInput == Input(<< << >> >>, NoStartAction, Stable)

\* One module-level client shared by every call.
SharedClient(c) == 1
\* client = PlaywrightClient(config): every call builds its own client.
ClientOf(c) == c

Self(c) == client[ClientOf(c)]

Init ==
  /\ pc = [c \in Tasks |-> "idle"]
  /\ headless = [c \in Tasks |-> FALSE]
  /\ tool_call = [c \in Tasks |-> NoCall]
  /\ wizard_structure = [c \in Tasks |-> NoInput.wizard_structure]
  /\ field_values = [c \in Tasks |-> NoInput.field_values]
  /\ site = [c \in Tasks |-> NoInput.site]
  /\ client = [c \in Tasks |-> NoClient]
  /\ browser_state = [c \in Tasks |-> "none"]
  /\ playwright_state = [c \in Tasks |-> "none"]
  /\ screenshots = [c \in Tasks |-> << >>]
  /\ pages_completed = [c \in Tasks |-> 0]
  /\ attempt = [c \in Tasks |-> 0]
  /\ page_idx = [c \in Tasks |-> 1]
  /\ field_idx = [c \in Tasks |-> 1]
  /\ item_idx = [c \in Tasks |-> 1]
  /\ sub_idx = [c \in Tasks |-> 1]
  /\ exc = [c \in Tasks |-> NoExc]
  /\ result = [c \in Tasks |-> NoResult]
  /\ live_select = [c \in Tasks |-> {}]
  /\ ops = [c \in Tasks |-> << >>]
  /\ built = NoModel
  /\ joined = NoJoin
  /\ server_sessions = {}
  /\ session_initialized = {}
  /\ issued = 0
  /\ deleted = {}
  /\ http = NoRequest
  /\ active_sessions = [id \in SessionIds |-> NoHandle]
  /\ sessions = [s \in SessionIds |-> NoSession]
  /\ close_tasks = {}
  /\ scout_call = NoScoutCall

\* The exception is recorded and the try body goes on with its next step.
RaiseAndGoOn(c, e) ==
  /\ exc' = [exc EXCEPT ![c] = e]
  /\ pc' = pc
\* raise: the exception leaves the try body for the except block.
Raise(c, e) ==
  /\ exc' = [exc EXCEPT ![c] = e]
  /\ pc' = [pc EXCEPT ![c] = "except"]

Log(c, entries) == ops' = [ops EXCEPT ![c] = @ \o entries]

\* What a call of federalrunner_execute_wizard can find: the schema file
\* (load_schema raises FileNotFoundError when it is missing, JSONDecodeError
\* when it is unreadable), the verdict of validate_user_data (or an exception
\* out of it), the wizard structure file (missing, or rejected by
\* WizardStructure.from_json_file).
SchemaFiles == {"found", "missing", "unreadable"}
Verdicts == {"valid", "invalid", "raises"}
StructureFiles == {"found", "missing", "rejected"}

\* The engine is entered whatever validate_user_data has answered.
StepsIgnoringValidation(schema, verdict, structure) ==
  IF schema # "found" THEN << "load_schema" >>
  ELSE IF structure # "found"
  THEN << "load_schema", "validate_user_data", "load_structure" >>
  ELSE << "load_schema", "validate_user_data", "load_structure",
          "map_fields", "execute" >>
\* federalrunner_execute_wizard, steps 1 to 5: the steps a call takes, the
\* last being the one it returns from.
ToolSteps(schema, verdict, structure) ==
  IF schema # "found" THEN << "load_schema" >>
  ELSE IF verdict # "valid" THEN << "load_schema", "validate_user_data" >>
  ELSE IF structure # "found"
  THEN << "load_schema", "validate_user_data", "load_structure" >>
  ELSE << "load_schema", "validate_user_data", "load_structure",
          "map_fields", "execute" >>

\* The dict a call returns by itself when it does not reach the engine: the
\* three early returns, and the outer "except Exception".
ToolFailure(schema, verdict, structure) ==
  IF schema = "missing"
  THEN [success |-> FALSE, error |-> "Schema not found for wizard", hint |-> TRUE]
  ELSE IF schema = "found" /\ verdict = "invalid"
  THEN [success |-> FALSE, error |-> "User data validation failed", hint |-> TRUE,
        validation_errors |-> [valid |-> FALSE]]
  ELSE IF schema = "found" /\ verdict = "valid" /\ structure = "missing"
  THEN [success |-> FALSE, error |-> "Wizard structure not found"]
  ELSE [success |-> FALSE, error_type |-> "type(e)", error |-> "str(e)", hint |-> TRUE]

\* federalrunner_execute_wizard: steps 1 to 4, and at step 5 the client built
\* on the configuration read by this call and the entry into
\* execute_wizard_atomically (screenshots = [], pages_completed = 0).  A call
\* that returns before step 5 leaves the engine where it was.
ExecuteWizard(c, inputs) ==
  /\ pc[c] = "idle"
  /\ \E schema \in SchemaFiles, verdict \in Verdicts, structure \in StructureFiles :
       LET steps == ToolSteps(schema, verdict, structure)
       IN IF steps[Len(steps)] = "execute"
          THEN /\ tool_call' = [tool_call EXCEPT ![c] =
                     Call(schema, verdict, structure, steps, NoResult)]
               /\ \E h \in BOOLEAN : headless' = [headless EXCEPT ![c] = h]
               /\ \E in \in inputs :
                    /\ wizard_structure' = [wizard_structure EXCEPT ![c] = in.wizard_structure]
                    /\ field_values' = [field_values EXCEPT ![c] = in.field_values]
                    /\ site' = [site EXCEPT ![c] = in.site]
               /\ client' = [client EXCEPT ![ClientOf(c)] = NoClient]
               /\ screenshots' = [screenshots EXCEPT ![c] = << >>]
               /\ pages_completed' = [pages_completed EXCEPT ![c] = 0]
               /\ pc' = [pc EXCEPT ![c] = "launch"]
          ELSE /\ tool_call' = [tool_call EXCEPT ![c] =
                     Call(IF Len(steps) >= 1 THEN schema ELSE "found",
                          IF Len(steps) >= 2 THEN verdict ELSE "valid",
                          IF Len(steps) >= 3 THEN structure ELSE "found",
                          steps, ToolFailure(schema, verdict, structure))]
               /\ UNCHANGED << pc, headless, wizard_structure, field_values, site,
                               client, screenshots, pages_completed >>
  /\ UNCHANGED << scoutVars, browser_state, playwright_state, loopVars, exc,
                  result, live_select, ops >>

\* _launch_browser: start Playwright, launch the browser, new context, new
\* page; failed names the call that raises ("none": all return).
LaunchBrowser(c) ==
  /\ pc[c] = "launch"
  /\ \E failed \in {"start", "launch", "new_context", "new_page", "none"} :
       LET started == failed # "start"
           launched == failed \notin {"start", "launch"}
           hasContext == failed \notin {"start", "launch", "new_context"}
           hasPage == failed = "none"
       IN /\ client' = [client EXCEPT ![ClientOf(c)] =
                 [page |-> IF hasPage THEN c ELSE @.page,
                  playwright |-> IF started THEN c ELSE @.playwright,
                  browser |-> IF launched THEN c ELSE @.browser,
                  context |-> IF hasContext THEN c ELSE @.context]]
          /\ playwright_state' = [playwright_state EXCEPT ![c] =
                 IF started THEN "running" ELSE @]
          /\ browser_state' = [browser_state EXCEPT ![c] =
                 IF launched THEN "open" ELSE @]
          /\ IF hasPage
             THEN /\ pc' = [pc EXCEPT ![c] = "navigate"]
                  /\ exc' = exc
             ELSE Raise(c, Exc("Error", failed, << >>, << >>, 0))
  /\ attempt' = [attempt EXCEPT ![c] = 0]
  /\ UNCHANGED << scoutVars, argVars, screenshots, pages_completed, page_idx, field_idx,
                  item_idx, sub_idx, result, live_select, ops >>

\* _take_screenshot(label): the base64 image, or "" (the empty string) when
\* the capture raises; it never raises itself.
Image(label) == <<"jpeg">> \o label
\* The capture always yields an image.
NoPlaceholder(label, captured) == Image(label)
TakeScreenshot(label, captured) == IF captured THEN Image(label) ELSE << >>
ScreenshotOp(c, label, captured) ==
  Op("screenshot", Self(c).page, label, << >>, captured)
\* Whether page.screenshot() returns: always on a site without capture failures.
Captures(c) == IF site[c].captures_fail THEN BOOLEAN ELSE {TRUE}

\* A delay before every attempt, the first included.
AlwaysDelay(n) == TRUE
\* if attempt > 0: wait retry_delay before the goto.
NeedsDelay(n) == n > 0

\* The loop variable stays where it is.
SameAttempt(n) == n
\* for attempt in range(...): the loop variable of the next iteration.
NextAttempt(n) == n + 1

\* One iteration of the navigation retry loop (for attempt in
\* range(max_retries + 1)): the retry delay when attempt > 0, then goto.
\* The goto of iteration attempt returns once the site has failed
\* site.goto_failures times.
Navigate(c) ==
  /\ pc[c] = "navigate"
  /\ attempt[c] <= max_retries
  /\ LET page == Self(c).page
         returned == attempt[c] >= site[c].goto_failures
         delay == IF NeedsDelay(attempt[c])
                  THEN << Op("wait_for_timeout", page, <<"retry_delay">>, << >>, TRUE) >>
                  ELSE << >>
         goto == << Op("goto", page, <<"url">>, << >>, returned) >>
     IN /\ Log(c, delay \o goto)
        /\ IF returned
           THEN /\ pc' = [pc EXCEPT ![c] = "initial"]
                /\ UNCHANGED << exc, attempt >>
           ELSE IF attempt[c] = max_retries
           THEN /\ Raise(c, Exc("TimeoutError", "goto", << >>, << >>, attempt[c] + 1))
                /\ UNCHANGED attempt
           ELSE /\ attempt' = [attempt EXCEPT ![c] = NextAttempt(@)]
                /\ UNCHANGED << pc, exc >>
  /\ UNCHANGED << scoutVars, argVars, browserVars, screenshots, pages_completed, page_idx,
                  field_idx, item_idx, sub_idx, result, live_select >>

\* The start action is run whether or not one is declared.
AlwaysStart(wizard) == TRUE
\* if wizard_structure.start_action:
HasStartAction(wizard) == wizard.start_action # NoStartAction

\* After the loop: settle, then screenshots.append(_take_screenshot("initial_page")).
InitialPage(c) ==
  /\ pc[c] = "initial"
  /\ \E captured \in Captures(c) :
       /\ Log(c, << ScreenshotOp(c, <<"initial_page">>, captured) >>)
       /\ screenshots' = [screenshots EXCEPT ![c] =
             Append(@, TakeScreenshot(<<"initial_page">>, captured))]
  /\ pc' = [pc EXCEPT ![c] =
        IF HasStartAction(wizard_structure[c]) THEN "start" ELSE "page"]
  /\ page_idx' = [page_idx EXCEPT ![c] = 1]
  /\ field_idx' = [field_idx EXCEPT ![c] = 1]
  /\ UNCHANGED << scoutVars, argVars, browserVars, pages_completed, attempt, item_idx,
                  sub_idx, exc, result, live_select >>

\* The click of _click_continue and _execute_start_action, by selector_type:
\* text -> get_by_text(selector, exact=True).click(); id -> click("#" +
\* selector) unless it already starts with "#"; otherwise click(selector).
ButtonClick(button, page, ok) ==
  IF button.selector_type = "text"
  THEN Op("get_by_text_click", page, button.selector, << >>, ok)
  ELSE IF button.selector_type = "id"
  THEN Op("click", page,
          IF button.selector # << >> /\ button.selector[1] = "#"
          THEN button.selector ELSE <<"#">> \o button.selector, << >>, ok)
  ELSE Op("click", page, button.selector, << >>, ok)

\* if wizard_structure.start_action: _execute_start_action, wait for
\* network idle, settle, screenshot "after_start_action".
ExecuteStartAction(c) ==
  /\ pc[c] = "start"
  /\ \E outcome \in {"ok", "click_raises", "wait_raises"}, captured \in Captures(c) :
       LET page == Self(c).page
           button == wizard_structure[c].start_action
           click == ButtonClick(button, page, outcome # "click_raises")
           wait == Op("wait_for_load_state", page, <<"networkidle">>, << >>,
                      outcome = "ok")
       IN IF outcome = "click_raises"
          THEN /\ Log(c, << click >>)
               /\ Raise(c, Exc("ValueError", "start_action", << >>, button.selector, 0))
               /\ UNCHANGED screenshots
          ELSE IF outcome = "wait_raises"
          THEN /\ Log(c, << click, wait >>)
               /\ Raise(c, Exc("TimeoutError", "start_wait", << >>, << >>, 0))
               /\ UNCHANGED screenshots
          ELSE /\ Log(c, << click, wait,
                            ScreenshotOp(c, <<"after_start_action">>, captured) >>)
               /\ screenshots' = [screenshots EXCEPT ![c] =
                     Append(@, TakeScreenshot(<<"after_start_action">>, captured))]
               /\ pc' = [pc EXCEPT ![c] = "page"]
               /\ exc' = exc
  /\ UNCHANGED << scoutVars, argVars, browserVars, pages_completed, loopVars, result,
                  live_select >>

\* The page loop stays on the first page of the list.
FirstPage(c) == wizard_structure[c].pages[1]
\* The page and field the field loop is at.
CurrentPage(c) == wizard_structure[c].pages[page_idx[c]]
\* The field loop runs from the last declared field to the first.
LastFieldFirst(c) ==
  CurrentPage(c).fields[Len(CurrentPage(c).fields) + 1 - field_idx[c]]
CurrentField(c) == CurrentPage(c).fields[field_idx[c]]

\* _fill_field past the group branch: the calls made for one field by its
\* interaction kind.  raises is the position of the call that raises (0: none);
\* a select runs the strategy loop against the live options.
Interact(field, value, page, raises, live, timeouts) ==
  LET sel == field.selector
  IN IF field.interaction = "fill"
     THEN << Op("fill", page, sel, Str(value), raises # 1) >>
     ELSE IF field.interaction = "fill_enter"
     THEN IF raises = 1
          THEN << Op("fill", page, sel, Str(value), FALSE) >>
          ELSE << Op("fill", page, sel, Str(value), TRUE),
                  Op("press", page, sel, <<"Enter">>, raises # 2) >>
     ELSE IF field.interaction = "click"
     THEN << Op("click", page, sel, << >>, raises # 1) >>
     ELSE IF field.interaction = "javascript_click"
     THEN << Op("evaluate_click", page, sel, << >>, raises # 1) >>
     ELSE IF field.interaction = "select"
     THEN TryStrategies(Strategies(Str(value)), 1, page, sel, live, timeouts)
     ELSE << >>

\* A missing required field is skipped like an optional one.
NeverMissing(field, field_value) == FALSE
\* if field_value is None and field.required
MissingRequired(field, field_value) ==
  field_value.t = "none" /\ field.required

\* "if not field_value": False, "" and [] read as no value too.
IsFalsy(field_value) ==
  \/ field_value.t = "none"
  \/ field_value.t = "bool" /\ ~field_value.b
  \/ field_value.t = "str" /\ field_value.s = << >>
  \/ field_value.t = "list" /\ field_value.items = << >>
\* field_value is None
IsNone(field_value) == field_value.t = "none"

NextField(c) ==
  /\ field_idx' = [field_idx EXCEPT ![c] = @ + 1]
  /\ UNCHANGED << pc, exc >>

\* One iteration of "for field in page_structure.fields": look the value up
\* by selector, raise on a missing required field, fill when a value is
\* there.  A group field with a non-empty list enters the item loop.
FillField(c) ==
  /\ pc[c] = "page"
  /\ field_idx[c] <= Len(CurrentPage(c).fields)
  /\ LET field == CurrentField(c)
         field_value == Get(field_values[c], field.selector)
     IN IF IsNone(field_value)
        THEN /\ IF MissingRequired(field, field_value)
                THEN Raise(c, Exc("ValueError", "missing_required",
                                  field.field_id, field.selector, 0))
                     /\ UNCHANGED field_idx
                ELSE NextField(c)
             /\ UNCHANGED << item_idx, live_select, ops >>
        ELSE IF field.field_type = "group" /\ field_value.t = "list"
        THEN /\ IF Len(field_value.items) = 0
                THEN NextField(c) /\ UNCHANGED item_idx
                ELSE /\ pc' = [pc EXCEPT ![c] = "group_add"]
                     /\ item_idx' = [item_idx EXCEPT ![c] = 1]
                     /\ UNCHANGED << exc, field_idx >>
             /\ UNCHANGED << live_select, ops >>
        ELSE \E raises \in 0..2, live \in LiveSelects, timeouts \in SUBSET (1..4) :
               LET trace == Interact(field, field_value, Self(c).page,
                                     raises, live, timeouts)
               IN /\ Log(c, trace)
                  /\ live_select' = [live_select EXCEPT ![c] =
                        IF field.interaction = "select" THEN live ELSE @]
                  /\ IF trace = << >> \/ Succeeded(trace)
                     THEN NextField(c)
                     ELSE Raise(c, Exc("ValueError", "fill_field", field.field_id,
                                       field.selector, Len(trace)))
                          /\ UNCHANGED field_idx
                  /\ UNCHANGED item_idx
  /\ UNCHANGED << scoutVars, argVars, browserVars, screenshots, pages_completed, attempt,
                  page_idx, sub_idx, result >>

\* Item loop of a repeatable field, first part: the add button.
GroupAdd(c) ==
  /\ pc[c] = "group_add"
  /\ LET field == CurrentField(c)
     IN IF field.add_button_selector = NoSelector
        THEN /\ Raise(c, Exc("ValueError", "add_button_missing",
                             field.field_id, << >>, 0))
             /\ UNCHANGED << ops, sub_idx >>
        ELSE \E ok \in BOOLEAN :
               /\ Log(c, << Op("click", Self(c).page, field.add_button_selector,
                               << >>, ok) >>)
               /\ IF ok
                  THEN /\ pc' = [pc EXCEPT ![c] = "group_sub"]
                       /\ sub_idx' = [sub_idx EXCEPT ![c] = 1]
                       /\ exc' = exc
                  ELSE /\ Raise(c, Exc("Error", "add_click", << >>, << >>, 0))
                       /\ UNCHANGED sub_idx
  /\ UNCHANGED << scoutVars, argVars, browserVars, screenshots, pages_completed, attempt,
                  page_idx, field_idx, item_idx, result, live_select >>

CurrentItem(c) == Get(field_values[c], CurrentField(c).selector).items[item_idx[c]]

\* Item loop, second part: one iteration of "for sub_field in field.sub_fields".
GroupSubField(c) ==
  /\ pc[c] = "group_sub"
  /\ sub_idx[c] <= Len(CurrentField(c).sub_fields)
  /\ LET sub_field == CurrentField(c).sub_fields[sub_idx[c]]
         item_data == CurrentItem(c)
         sub_field_value == Get(item_data, sub_field.field_id)
         page == Self(c).page
         next == /\ sub_idx' = [sub_idx EXCEPT ![c] = @ + 1]
                 /\ UNCHANGED << pc, exc >>
     IN IF sub_field_value.t = "none"
        THEN next /\ UNCHANGED << ops, live_select >>
        ELSE IF sub_field.interaction = "fill"
        THEN \E ok \in BOOLEAN :
               /\ Log(c, << Op("fill", page, sub_field.selector,
                               Str(sub_field_value), ok) >>)
               /\ IF ok THEN next
                  ELSE Raise(c, Exc("Error", "sub_fill", << >>, << >>, 0))
                       /\ UNCHANGED sub_idx
               /\ UNCHANGED live_select
        ELSE IF sub_field.interaction = "select"
        THEN \E live \in LiveSelects, timeouts \in SUBSET (1..2) :
               LET trace == SubSelect(Str(sub_field_value), page,
                                      sub_field.selector, live, timeouts)
               IN /\ Log(c, trace)
                  /\ live_select' = [live_select EXCEPT ![c] = live]
                  /\ IF Succeeded(trace) THEN next
                     ELSE Raise(c, Exc("TimeoutError", "sub_select", << >>, << >>, 2))
                          /\ UNCHANGED sub_idx
        ELSE next /\ UNCHANGED << ops, live_select >>
  /\ UNCHANGED << scoutVars, argVars, browserVars, screenshots, pages_completed, attempt,
                  page_idx, field_idx, item_idx, result >>

\* The field is left after its first item.
OneItemOnly(idx, n) == FALSE
\* for index, item_data in enumerate(value): another item follows the idx-th of n.
MoreItems(idx, n) == idx < n

\* Item loop, last part: get_by_text("Save", exact=True).click(), then the
\* next item or, after the last, the return to the field loop.
GroupSave(c) ==
  /\ pc[c] = "group_sub"
  /\ sub_idx[c] > Len(CurrentField(c).sub_fields)
  /\ \E ok \in BOOLEAN :
       /\ Log(c, << Op("get_by_text_click", Self(c).page, <<"Save">>, << >>, ok) >>)
       /\ IF ~ok
          THEN /\ Raise(c, Exc("ValueError", "save", CurrentField(c).field_id, << >>, 0))
               /\ UNCHANGED << item_idx, field_idx >>
          ELSE IF MoreItems(item_idx[c],
                            Len(Get(field_values[c], CurrentField(c).selector).items))
          THEN /\ item_idx' = [item_idx EXCEPT ![c] = @ + 1]
               /\ pc' = [pc EXCEPT ![c] = "group_add"]
               /\ UNCHANGED << exc, field_idx >>
          ELSE /\ pc' = [pc EXCEPT ![c] = "page"]
               /\ field_idx' = [field_idx EXCEPT ![c] = @ + 1]
               /\ UNCHANGED << exc, item_idx >>
  /\ UNCHANGED << scoutVars, argVars, browserVars, screenshots, pages_completed, attempt,
                  page_idx, sub_idx, result, live_select >>

\* The counter is left as it is.
KeepCompleted(n) == n
\* The counter is stepped twice for one page.
IncrementTwice(n) == n + 2
\* pages_completed += 1
IncrementCompleted(n) == n + 1

\* The page is counted before its continue click.
CountedBeforeClick(n) == n + 1
\* pages_completed += 1 comes after the continue click and its waits: a
\* page whose click or wait raises is not counted.
NotCounted(n) == n

\* The extraction follows the first page.
ExtractAfterFirstPage(idx, n) == "extract"
\* "for page_structure in wizard_structure.pages": after the idx-th of n
\* pages comes the next page, after the last the extraction.
AfterPage(idx, n) == IF idx = n THEN "extract" ELSE "page"

\* After the field loop of a page: screenshot "page_<n>_filled",
\* _click_continue, wait for network idle, settle, pages_completed += 1.
AdvancePage(c) ==
  /\ pc[c] = "page"
  /\ field_idx[c] > Len(CurrentPage(c).fields)
  /\ \E captured \in Captures(c), outcome \in {"ok", "click_raises", "wait_raises"} :
       LET page == Self(c).page
           page_structure == CurrentPage(c)
           label == <<"page_filled", page_structure.page_number>>
           shot == ScreenshotOp(c, label, captured)
           click == ButtonClick(page_structure.continue_button, page,
                                outcome # "click_raises")
           wait == Op("wait_for_load_state", page, <<"networkidle">>, << >>,
                      outcome = "ok")
       IN /\ screenshots' = [screenshots EXCEPT ![c] =
                Append(@, TakeScreenshot(label, captured))]
          /\ IF outcome = "click_raises"
             THEN /\ Log(c, << shot, click >>)
                  /\ Raise(c, Exc("ValueError", "continue", << >>,
                                  page_structure.continue_button.selector, 0))
                  /\ pages_completed' = [pages_completed EXCEPT ![c] = NotCounted(@)]
                  /\ UNCHANGED << page_idx, field_idx >>
             ELSE IF outcome = "wait_raises"
             THEN /\ Log(c, << shot, click, wait >>)
                  /\ Raise(c, Exc("TimeoutError", "continue_wait", << >>, << >>, 0))
                  /\ pages_completed' = [pages_completed EXCEPT ![c] = NotCounted(@)]
                  /\ UNCHANGED << page_idx, field_idx >>
             ELSE /\ Log(c, << shot, click, wait >>)
                  /\ pages_completed' = [pages_completed EXCEPT ![c] = IncrementCompleted(@)]
                  /\ page_idx' = [page_idx EXCEPT ![c] = @ + 1]
                  /\ field_idx' = [field_idx EXCEPT ![c] = 1]
                  /\ pc' = [pc EXCEPT ![c] =
                        AfterPage(page_idx[c], Len(wizard_structure[c].pages))]
                  /\ exc' = exc
  /\ UNCHANGED << scoutVars, argVars, browserVars, attempt, item_idx, sub_idx, result,
                  live_select >>

\* _extract_results(): the generic snapshot, or the degraded payload when
\* reading the page raises; it never raises itself.
\* The snapshot, whatever became of the reading of the page.
AlwaysSnapshot(extracted) == "snapshot"
ExtractedResults(extracted) ==
  IF extracted THEN "snapshot" ELSE "Failed to extract results"

\* After the page loop: final screenshot, _extract_results, the success dict.
ExtractResults(c) ==
  /\ pc[c] = "extract"
  /\ \E captured \in Captures(c), extracted \in BOOLEAN :
       LET final_screenshot == TakeScreenshot(<<"final_results">>, captured)
           all == Append(screenshots[c], final_screenshot)
           response_screenshots == IF ~headless[c] THEN all ELSE << final_screenshot >>
       IN /\ Log(c, << ScreenshotOp(c, <<"final_results">>, captured),
                       Op("extract", Self(c).page, << >>, << >>, extracted) >>)
          /\ screenshots' = [screenshots EXCEPT ![c] = all]
          /\ result' = [result EXCEPT ![c] =
                [wizard_id |-> wizard_structure[c].wizard_id,
                 screenshots |-> response_screenshots,
                 pages_completed |-> pages_completed[c],
                 success |-> TRUE,
                 results |-> ExtractedResults(extracted),
                 execution_time_ms |-> "elapsed",
                 timestamp |-> "now"]]
  /\ pc' = [pc EXCEPT ![c] = "finally"]
  /\ UNCHANGED << scoutVars, argVars, browserVars, pages_completed, loopVars, exc, live_select >>

\* The except block without its capture.
WithoutErrorScreenshot(shots, page, captured) == shots
\* if self.page: screenshots.append(_take_screenshot("error"))
WithErrorScreenshot(shots, page, captured) ==
  IF page # NoHandle
  THEN Append(shots, TakeScreenshot(<<"error">>, captured))
  ELSE shots

\* In reduced-payload mode the failure result carries no screenshot.
NoScreenshotWhenReduced(reduced, all) == IF reduced THEN << >> ELSE all
\* The failure result keeps every screenshot in either mode.
EveryScreenshot(reduced, all) == all
\* The failure result leaves out the first screenshot of the run.
WithoutFirstScreenshot(reduced, all) ==
  IF reduced /\ Len(all) > 0 THEN << all[Len(all)] >>
  ELSE IF all = << >> THEN all ELSE Tail(all)
\* if self.config.headless and len(screenshots) > 0: [screenshots[-1]]
\* else: screenshots
ResponseScreenshots(reduced, all) ==
  IF reduced /\ Len(all) > 0 THEN << all[Len(all)] >> ELSE all

\* A failed error capture takes the place of the error that is returned.
CaptureErrorWins(e, captured) ==
  IF captured THEN e ELSE Exc("Error", "error_screenshot", << >>, << >>, 0)
\* 'error': str(e), 'error_type': type(e).__name__: e is the exception the
\* except block caught, whatever became of the error capture.
ReturnedError(e, captured) == e

\* The failure dict without the class name of the exception.
FailureWithoutType(response_screenshots, completed, e) ==
  [screenshots |-> response_screenshots,
   pages_completed |-> completed,
   success |-> FALSE,
   error |-> e,
   execution_time_ms |-> "elapsed",
   timestamp |-> "now"]
\* The dict the except block returns.
FailureResult(response_screenshots, completed, e) ==
  [screenshots |-> response_screenshots,
   pages_completed |-> completed,
   success |-> FALSE,
   error_type |-> e.type,
   error |-> e,
   execution_time_ms |-> "elapsed",
   timestamp |-> "now"]

\* except Exception as e: error screenshot if self.page, then the failure dict.
HandleError(c) ==
  /\ pc[c] = "except"
  /\ \E captured \in Captures(c) :
       LET hasPage == Self(c).page # NoHandle
           all == WithErrorScreenshot(screenshots[c], Self(c).page, captured)
           response_screenshots == ResponseScreenshots(headless[c], all)
       IN /\ Log(c, IF hasPage THEN << ScreenshotOp(c, <<"error">>, captured) >>
                    ELSE << >>)
          /\ screenshots' = [screenshots EXCEPT ![c] = all]
          /\ result' = [result EXCEPT ![c] =
                FailureResult(response_screenshots, pages_completed[c],
                              ReturnedError(exc[c], captured))]
  /\ pc' = [pc EXCEPT ![c] = "finally"]
  /\ UNCHANGED << scoutVars, argVars, browserVars, pages_completed, loopVars, exc, live_select >>

\* finally: _close_browser().  browser.close() and playwright.stop() sit in
\* one try block; an exception is logged; the four fields are reset to None.
CloseBrowser(c) ==
  /\ pc[c] = "finally"
  /\ \E close_raises \in BOOLEAN :
       LET self == Self(c)
           closing == self.browser # NoHandle
           closed == closing /\ ~close_raises
           stopping == self.playwright # NoHandle /\ ~(closing /\ close_raises)
       IN /\ close_raises => closing
          /\ browser_state' = IF closed
                THEN [browser_state EXCEPT ![self.browser] = "closed"]
                ELSE browser_state
          /\ playwright_state' = IF stopping
                THEN [playwright_state EXCEPT ![self.playwright] = "stopped"]
                ELSE playwright_state
          /\ Log(c, (IF closing
                     THEN << Op("browser_close", self.browser, << >>, << >>, closed) >>
                     ELSE << >>)
                    \o (IF stopping
                        THEN << Op("playwright_stop", self.playwright, << >>, << >>, TRUE) >>
                        ELSE << >>))
  /\ client' = [client EXCEPT ![ClientOf(c)] = NoClient]
  /\ pc' = [pc EXCEPT ![c] = "done"]
  /\ UNCHANGED << scoutVars, argVars, screenshots, pages_completed, loopVars, exc, result,
                  live_select >>

\* --------------------------------------------------------- specifications
\* One execution at a time, over every input.
Next ==
  \E c \in {1} :
    \/ ExecuteWizard(c, Inputs)
    \/ LaunchBrowser(c)
    \/ Navigate(c)
    \/ InitialPage(c)
    \/ ExecuteStartAction(c)
    \/ FillField(c)
    \/ GroupAdd(c)
    \/ GroupSubField(c)
    \/ GroupSave(c)
    \/ AdvancePage(c)
    \/ ExtractResults(c)
    \/ HandleError(c)
    \/ CloseBrowser(c)

Spec == Init /\ [][Next]_vars

\* Two executions of the same structure and values, interleaved in any order.
LoanCase == Case(GroupKind(TRUE, TRUE, LoanSubFields), TRUE, ListVal(<<ItemFull>>))
ConcurrentInputs == { Input(<< <<LoanCase>> >>, BeginButton, Stable) }

NextConcurrent ==
  \E c \in Tasks :
    \/ ExecuteWizard(c, ConcurrentInputs)
    \/ LaunchBrowser(c)
    \/ Navigate(c)
    \/ InitialPage(c)
    \/ ExecuteStartAction(c)
    \/ FillField(c)
    \/ GroupAdd(c)
    \/ GroupSubField(c)
    \/ GroupSave(c)
    \/ AdvancePage(c)
    \/ ExtractResults(c)
    \/ HandleError(c)
    \/ CloseBrowser(c)

SpecConcurrent == Init /\ [][NextConcurrent]_vars

\* A step of the engine inside execute_wizard_atomically: every step awaits
\* one browser operation (or none) and goes on when it returns or raises.
EngineStep(c) ==
  \/ LaunchBrowser(c)
  \/ Navigate(c)
  \/ InitialPage(c)
  \/ ExecuteStartAction(c)
  \/ FillField(c)
  \/ GroupAdd(c)
  \/ GroupSubField(c)
  \/ GroupSave(c)
  \/ AdvancePage(c)
  \/ ExtractResults(c)
  \/ HandleError(c)
  \/ CloseBrowser(c)

\* One execution at a time, every awaited browser operation eventually
\* returning or raising: a started call keeps taking its steps.  Whether a
\* call is made is the caller's choice.
SpecLive == Init /\ [][Next]_vars /\ WF_vars(EngineStep(1))

\* ---------------------------------------------------- the pydantic models
\* Page numbers and page counts a caller can hand to the models, one beyond
\* the largest structure of the engine's inputs and one below the smallest.
ModelNumbers == 0..(MaxPages + 1)
NumberLists == UNION {[1..n -> ModelNumbers] : n \in 0..(MaxPages + 1)}

\* PageStructure.page_number: int = Field(..., ge=1).
PageNumberAccepted(n) == n >= 1
\* WizardStructure.total_pages: int = Field(..., ge=1).
TotalPagesAccepted(n) == n >= 1
\* WizardStructure.validate_pages_count: len(self.pages) == self.total_pages.
validate_pages_count(total_pages, pages) == Len(pages) = total_pages

\* WizardStructure(total_pages=..., pages=[...]): the field constraints of
\* the pages and of the structure, then the two model validators; the object
\* when all pass, a ValidationError otherwise.
ConstructWizard ==
  \E total_pages \in ModelNumbers, numbers \in NumberLists :
    LET pages == [i \in 1..Len(numbers) |-> [page_number |-> numbers[i]]]
        accepted == /\ \A i \in 1..Len(numbers) : PageNumberAccepted(numbers[i])
                    /\ TotalPagesAccepted(total_pages)
                    /\ validate_pages_count(total_pages, pages)
                    /\ validate_page_numbers(pages)
    IN /\ built' = [total_pages |-> total_pages, pages |-> pages,
                    model |-> "WizardStructure", accepted |-> accepted]
       /\ UNCHANGED << joined, serverVars, discoveryVars, pc, argVars, browserVars, screenshots, pages_completed,
                       loopVars, exc, result, live_select, ops >>

FieldTypes == {"text", "number", "radio", "select", "typeahead", "checkbox",
               "group", "textarea", "search"}
\* sub_fields: Optional[List[SubFieldStructure]] = None: not given, or a list.
SubFieldLists ==
  {[items |-> IF given THEN l ELSE << >>, given |-> given] :
     l \in {<< >>, << SubField(1, "fill") >>, LoanSubFields}, given \in BOOLEAN}

\* Every field is accepted.
AcceptAnyField(field_type, sub_fields) == TRUE
\* FieldStructure.validate_group_fields: a group field needs sub_fields that
\* are given and not empty; nothing is asked of the other field types.
validate_group_fields(field_type, sub_fields) ==
  ~(field_type = "group" /\ (~sub_fields.given \/ Len(sub_fields.items) = 0))

\* FieldStructure(field_type=..., sub_fields=...).
ConstructField ==
  \E field_type \in FieldTypes, sub_fields \in SubFieldLists :
    /\ built' = [field_type |-> field_type, sub_fields |-> sub_fields,
                 model |-> "FieldStructure",
                 accepted |-> validate_group_fields(field_type, sub_fields)]
    /\ UNCHANGED << joined, serverVars, discoveryVars, pc, argVars, browserVars, screenshots, pages_completed,
                    loopVars, exc, result, live_select, ops >>

NextModels == ConstructWizard \/ ConstructField

\* The models on their own, over every candidate.
SpecModels == Init /\ [][NextModels]_vars

\* ---------------------------------------- the field_id to selector mapping
\* Step 4 of federalrunner_execute_wizard builds field_values (selector ->
\* value) from user_data (field_id -> value) and the fields of the
\* structure.  The fields are taken in page and declaration order; only
\* their field_id and selector matter here.
JoinIds == {"id_a", "id_b"}
JoinSelectors == {"#s", "#t"}
JoinValues == {StrVal(Word), StrVal(Plain), BoolVal(FALSE)}
JoinField(field_id, selector) == [field_id |-> field_id, selector |-> selector]
JoinFields == {JoinField(id, sel) : id \in JoinIds, sel \in JoinSelectors}
FieldLists == {l : l \in UNION {[1..n -> JoinFields] : n \in 0..MaxFields}}
UserData == {d : d \in UNION {[ids -> JoinValues] : ids \in SUBSET JoinIds}}

\* field_values[selector] = value
Put(fv, selector, value) ==
  [k \in DOMAIN fv \cup {selector} |-> IF k = selector THEN value ELSE fv[k]]
\* for page in wizard.pages: for field in page.fields:
\*   if field_id in user_data: field_values[field.selector] = user_data[field_id]
RECURSIVE MapUserData(_, _, _, _)
MapUserData(fields, i, user_data, fv) ==
  IF i > Len(fields) THEN fv
  ELSE MapUserData(fields, i + 1, user_data,
         IF fields[i].field_id \in DOMAIN user_data
         THEN Put(fv, fields[i].selector, user_data[fields[i].field_id])
         ELSE fv)

\* One call's step 4, on any structure and any user_data.
MapFields ==
  \E fields \in FieldLists, user_data \in UserData :
    /\ joined' = [fields |-> fields,
                  field_values |-> MapUserData(fields, 1, user_data, << >>),
                  user_data |-> user_data]
    /\ UNCHANGED << built, serverVars, discoveryVars, engineVars >>

NextJoin == MapFields
SpecJoin == Init /\ [][NextJoin]_vars

\* ------------------------------------------- the FederalRunner MCP server
\* The session ids uuid4 can draw, and what a request can carry in its
\* Mcp-Session-Id header and as its bearer token.
MaxSessions == 2
McpSessionIds == 1..MaxSessions
SessionHeaders == {h : h \in {NoHandle} \cup McpSessionIds}
Tokens == {"valid", "invalid", "missing"}

\* verify_token_manual(request) returns the payload of a valid token and
\* raises HTTPException for a missing or an invalid one.
verify_token_manual(token) == token = "valid"
\* Every session id that is present passes.
AnySessionId(session_id) == session_id # NoHandle
\* validate_session returns (TRUE) or raises HTTPException 400 (FALSE):
\* the header is missing, or session_id is not in sessions.
validate_session(session_id) ==
  session_id # NoHandle /\ session_id \in server_sessions

\* What a handler leaves alone besides the server's own state.
ServerFrame == UNCHANGED << built, joined, discoveryVars, engineVars >>

\* POST, method initialize: no token and no session are looked at; a new
\* session id is drawn, stored in sessions and in session_initialized.
Initialize ==
  \E session_id \in SessionHeaders, token \in Tokens :
    /\ issued < MaxSessions
    /\ issued' = issued + 1
    /\ server_sessions' = server_sessions \cup {issued + 1}
    /\ session_initialized' = session_initialized \cup {issued + 1}
    /\ http' = Http("initialize", session_id, token, "result", issued + 1)
    /\ UNCHANGED deleted
    /\ ServerFrame

\* POST, method notifications/initialized: session validation only.
NotificationsInitialized ==
  \E session_id \in SessionHeaders, token \in Tokens :
    /\ IF validate_session(session_id)
       THEN /\ session_initialized' = session_initialized \cup {session_id}
            /\ http' = Http("notifications/initialized", session_id, token,
                            "accepted", session_id)
       ELSE /\ http' = Http("notifications/initialized", session_id, token,
                            "bad_request", NoHandle)
            /\ UNCHANGED session_initialized
    /\ UNCHANGED << server_sessions, issued, deleted >>
    /\ ServerFrame

\* The two checks of tools/list and tools/call, in their order: the kind of
\* the HTTPException raised, or "result" when both return.
FullAuth(session_id, token) ==
  IF ~verify_token_manual(token) THEN "unauthorized"
  ELSE IF ~validate_session(session_id) THEN "bad_request"
  ELSE "result"

\* POST, method tools/list.
ToolsList ==
  \E session_id \in SessionHeaders, token \in Tokens :
    /\ http' = Http("tools/list", session_id, token, FullAuth(session_id, token),
                    IF FullAuth(session_id, token) = "result"
                    THEN session_id ELSE NoHandle)
    /\ UNCHANGED << server_sessions, session_initialized, issued, deleted >>
    /\ ServerFrame

\* POST, method tools/call: the same two checks, then execute_tool, whose
\* require_scope may raise HTTPException; every other exception of the tool
\* is turned into a result by execute_tool itself.
ToolsCall ==
  \E session_id \in SessionHeaders, token \in Tokens,
     scope \in {"granted", "missing"} :
    LET kind == IF FullAuth(session_id, token) # "result"
                THEN FullAuth(session_id, token)
                ELSE IF scope = "missing" THEN "forbidden" ELSE "result"
    IN /\ http' = Http("tools/call", session_id, token, kind,
                       IF kind = "result" THEN session_id ELSE NoHandle)
       /\ UNCHANGED << server_sessions, session_initialized, issued, deleted >>
       /\ ServerFrame

\* POST with any other method (JSON-RPC error -32601), or with a body that
\* request.json() cannot parse (the except branch, error -32603); both echo
\* the session header.
OtherRequest ==
  \E method \in {"other", "unparsable"}, session_id \in SessionHeaders,
     token \in Tokens :
    /\ http' = Http(method, session_id, token,
                    IF method = "other" THEN "method_not_found"
                    ELSE "internal_error", session_id)
    /\ UNCHANGED << server_sessions, session_initialized, issued, deleted >>
    /\ ServerFrame

\* DELETE /: without a session id nothing is cleaned up; with one, the
\* session is validated (no token) and removed from both dicts.
DeleteSession ==
  \E session_id \in SessionHeaders, token \in Tokens :
    /\ IF session_id = NoHandle
       THEN /\ http' = Http("DELETE", session_id, token, "no_content", NoHandle)
            /\ UNCHANGED << server_sessions, session_initialized, deleted >>
       ELSE IF ~validate_session(session_id)
       THEN /\ http' = Http("DELETE", session_id, token, "bad_request", NoHandle)
            /\ UNCHANGED << server_sessions, session_initialized, deleted >>
       ELSE /\ server_sessions' = server_sessions \ {session_id}
            /\ session_initialized' = session_initialized \ {session_id}
            /\ deleted' = deleted \cup {session_id}
            /\ http' = Http("DELETE", session_id, token, "no_content", session_id)
    /\ UNCHANGED issued
    /\ ServerFrame

NextServer ==
  \/ Initialize
  \/ NotificationsInitialized
  \/ ToolsList
  \/ ToolsCall
  \/ OtherRequest
  \/ DeleteSession
SpecServer == Init /\ [][NextServer]_vars

\* ------------------------------------------------- the discovery sessions
\* _get_session: _active_sessions.get(session_id), None when it holds none.
GetSession(id) == active_sessions[id]
\* session.update_activity(): last_activity = now.
update_activity(session) == [session EXCEPT !.expired = FALSE]

\* The session ids whose session _cleanup_expired_sessions finds expired.
ExpiredIds ==
  {id \in SessionIds :
     GetSession(id) # NoHandle /\ sessions[GetSession(id)].expired}
\* _cleanup_expired_sessions: pop every expired session.
PopExpired(registry, expired) ==
  [id \in SessionIds |-> IF id \in expired THEN NoHandle ELSE registry[id]]

\* PlaywrightClient.close with the call named by raises_at raising: page,
\* browser and Playwright session are closed one after the other, each only
\* when the client holds it; an exception leaves the rest as it is.
ClientClose(session, raises_at) ==
  IF session.page = "open" /\ raises_at = "page" THEN session
  ELSE LET a == [session EXCEPT !.page = IF @ = "open" THEN "closed" ELSE @]
       IN IF a.browser = "open" /\ raises_at = "browser" THEN a
          ELSE LET b == [a EXCEPT !.browser = IF @ = "open" THEN "closed" ELSE @]
               IN IF b.playwright = "open" /\ raises_at = "playwright" THEN b
                  ELSE [b EXCEPT !.playwright = IF @ = "open" THEN "closed" ELSE @]
CloseRaises(session, raises_at) ==
  raises_at # "none" /\ session[raises_at] = "open"
CloseSteps == {"none", "page", "browser", "playwright"}

\* str(uuid.uuid4()): an id no session had before; the ids are named in
\* the order they are drawn.
FreshId(s) == ~sessions[s].created /\ \A t \in 1..(s - 1) : sessions[t].created

\* federalscout_start_discovery: clean up the expired sessions (each is
\* popped and its close handed to a task), draw a session id, register the
\* new BrowserSession, launch, open a page, navigate, capture.
StartDiscovery ==
  \E s \in SessionIds, outcome \in {"ok", "launch_raises", "navigation_failed",
                                   "capture_raises"} :
    /\ FreshId(s)
    /\ active_sessions' = [PopExpired(active_sessions, ExpiredIds) EXCEPT ![s] = s]
    /\ close_tasks' = close_tasks \cup {GetSession(id) : id \in ExpiredIds}
    /\ sessions' = [sessions EXCEPT ![s] =
          IF outcome = "launch_raises"
          THEN Session("none", "none", "open", FALSE, FALSE)
          ELSE Session("open", "open", "open", FALSE, FALSE)]
    /\ scout_call' = ToolReturn("start_discovery", s, outcome = "ok",
          IF outcome = "ok" THEN "none"
          ELSE IF outcome = "navigation_failed" THEN outcome
          ELSE "unexpected_error")
    /\ UNCHANGED << built, joined, serverVars, engineVars >>

\* Time passes: the last activity of a registered session becomes older
\* than config.session_timeout.
SessionIdles ==
  \E id \in SessionIds :
    /\ GetSession(id) # NoHandle
    /\ ~sessions[GetSession(id)].expired
    /\ sessions' = [sessions EXCEPT ![GetSession(id)].expired = TRUE]
    /\ UNCHANGED << built, joined, serverVars, engineVars, active_sessions, close_tasks, scout_call >>

\* The task created by asyncio.create_task(session.close()) runs.
RunCloseTask ==
  \E s \in close_tasks, raises_at \in CloseSteps :
    /\ sessions' = [sessions EXCEPT ![s] = ClientClose(@, raises_at)]
    /\ close_tasks' = close_tasks \ {s}
    /\ UNCHANGED << built, joined, serverVars, engineVars, active_sessions, scout_call >>

\* The session stays registered after the close.
KeepRegistered(registry, id) == registry
\* _active_sessions.pop(session_id, None)
PopSession(registry, id) == [registry EXCEPT ![id] = NoHandle]

\* The part the tools on a session share: the lookup, the early return for
\* an unknown session_id, update_activity on the success path.  outcome is
\* "ok" or the error_type returned.
SessionTool(tool, id, outcome, after) ==
  IF GetSession(id) = NoHandle
  THEN /\ scout_call' = ToolReturn(tool, id, FALSE, "invalid_session")
       /\ UNCHANGED sessions
  ELSE /\ scout_call' = ToolReturn(tool, id, outcome = "ok",
                                   IF outcome = "ok" THEN "none" ELSE outcome)
       /\ sessions' = [sessions EXCEPT ![GetSession(id)] =
             IF outcome = "ok" THEN update_activity(after) ELSE @]

\* if not self.page: the client methods answer (False, "No active page"),
\* and capture_screenshot raises, when the client holds no page.
HasPage(id) == GetSession(id) # NoHandle /\ sessions[GetSession(id)].page = "open"

\* The tool drops the session it was called on.
ClickElementForgets ==
  \E id \in SessionIds, outcome \in {"ok", "click_failed", "unexpected_error"} :
    /\ (GetSession(id) # NoHandle /\ outcome = "ok") => HasPage(id)
    /\ SessionTool("click_element", id, outcome, sessions[GetSession(id)])
    /\ active_sessions' = PopSession(active_sessions, id)
    /\ UNCHANGED << built, joined, serverVars, engineVars, close_tasks >>
\* federalscout_click_element.
ClickElement ==
  \E id \in SessionIds, outcome \in {"ok", "click_failed", "unexpected_error"} :
    /\ (GetSession(id) # NoHandle /\ outcome = "ok") => HasPage(id)
    /\ SessionTool("click_element", id, outcome, sessions[GetSession(id)])
    /\ UNCHANGED << built, joined, serverVars, engineVars, active_sessions, close_tasks >>

\* federalscout_get_page_info.
GetPageInfo ==
  \E id \in SessionIds, outcome \in {"ok", "unexpected_error"} :
    /\ SessionTool("get_page_info", id, outcome, sessions[GetSession(id)])
    /\ UNCHANGED << built, joined, serverVars, engineVars, active_sessions, close_tasks >>

\* federalscout_save_page_metadata: PageStructure(**page_metadata), then
\* session.pages_discovered.append(page_structure).
SavePageMetadata ==
  \E id \in SessionIds, outcome \in {"ok", "validation_error"} :
    /\ SessionTool("save_page_metadata", id, outcome,
                   [sessions[GetSession(id)] EXCEPT !.discovered = TRUE])
    /\ UNCHANGED << built, joined, serverVars, engineVars, active_sessions, close_tasks >>

\* One action dict of a batch together with what the client call made for
\* it does: action is the 'action' key ("" when it is missing), outcome is
\* "ok" (the call returns (True, None)), "fails" (it returns (False, error))
\* or "raises" (SelectorType(selector_type) rejects the selector_type).
BatchAction(action, outcome) == [outcome |-> outcome, action |-> action]
BatchActions ==
  { BatchAction("fill", "ok"), BatchAction("fill", "fails"),
    BatchAction("click", "raises"), BatchAction("", "ok") }
Batches == {b : b \in UNION {[1..n -> BatchActions] : n \in 0..MaxActions}}
ActionTypes == {"fill", "fill_enter", "select", "click", "javascript_click"}
\* success after the body of the loop for one action.
ActionSucceeds(a) == a.action \in ActionTypes /\ a.outcome = "ok"

\* What the loop did with action idx: its index and whether it succeeded.
Attempt(idx, succeeded) == [succeeded |-> succeeded, action_index |-> idx]

\* The loop ends at the first action that does not succeed.
RECURSIVE StopAtFailure(_, _, _)
StopAtFailure(actions, idx, acc) ==
  IF idx > Len(actions) THEN acc
  ELSE IF ActionSucceeds(actions[idx])
  THEN StopAtFailure(actions, idx + 1,
         [acc EXCEPT !.attempted = Append(@, Attempt(idx, TRUE)),
                     !.completed_count = @ + 1])
  ELSE [acc EXCEPT !.attempted = Append(@, Attempt(idx, FALSE)),
                   !.failed_actions = Append(@, idx)]
\* for idx, action_dict in enumerate(actions, 1): completed_count += 1 on
\* success, failed_actions.append(...) otherwise, and on to the next action.
RECURSIVE RunBatch(_, _, _)
RunBatch(actions, idx, acc) ==
  IF idx > Len(actions) THEN acc
  ELSE RunBatch(actions, idx + 1,
         IF ActionSucceeds(actions[idx])
         THEN [acc EXCEPT !.attempted = Append(@, Attempt(idx, TRUE)),
                          !.completed_count = @ + 1]
         ELSE [acc EXCEPT !.attempted = Append(@, Attempt(idx, FALSE)),
                          !.failed_actions = Append(@, idx)])

\* federalscout_execute_actions: the loop over the batch, then one
\* screenshot; capture_screenshot raising sends the call to its outer
\* except, which returns the error without the counts.  Without a page no
\* action succeeds and the screenshot raises.
ExecuteActions ==
  \E id \in SessionIds :
    /\ IF GetSession(id) = NoHandle
       THEN /\ scout_call' = ToolReturn("execute_actions", id, FALSE, "invalid_session")
            /\ UNCHANGED sessions
       ELSE \E actions \in Batches, captured \in BOOLEAN :
              /\ HasPage(id) \/ (~captured /\ \A i \in 1..Len(actions) :
                                                ~ActionSucceeds(actions[i]))
              /\ LET ran == RunBatch(actions, 1,
                             ScoutCall("execute_actions", id, TRUE, "none",
                                       0, Len(actions), << >>, << >>))
                 IN /\ scout_call' =
                         IF captured THEN ran
                         ELSE [ToolReturn("execute_actions", id, FALSE, "unexpected_error")
                                 EXCEPT !.attempted = ran.attempted]
                    /\ sessions' = [sessions EXCEPT ![GetSession(id)] =
                          IF captured THEN update_activity(@) ELSE @]
    /\ UNCHANGED << built, joined, serverVars, engineVars, active_sessions, close_tasks >>

\* federalscout_complete_discovery: the lookup, the check that pages were
\* discovered, the WizardStructure and its schema validation, the file, then
\* session.close() and the pop.
CompleteDiscovery ==
  \E id \in SessionIds, outcome \in {"ok", "unexpected_error", "schema_validation_error"},
     raises_at \in CloseSteps :
    /\ outcome # "ok" => raises_at = "none"
    /\ IF GetSession(id) = NoHandle
       THEN /\ scout_call' = ToolReturn("complete_discovery", id, FALSE, "invalid_session")
            /\ UNCHANGED << sessions, active_sessions >>
       ELSE IF ~sessions[GetSession(id)].discovered
       THEN /\ scout_call' = ToolReturn("complete_discovery", id, FALSE,
                                        "no_pages_discovered")
            /\ UNCHANGED << sessions, active_sessions >>
       ELSE IF outcome # "ok"
       THEN /\ scout_call' = ToolReturn("complete_discovery", id, FALSE, outcome)
            /\ UNCHANGED << sessions, active_sessions >>
       ELSE LET s == GetSession(id)
                raised == CloseRaises(sessions[s], raises_at)
            IN /\ sessions' = [sessions EXCEPT ![s] = ClientClose(@, raises_at)]
               /\ active_sessions' = IF raised THEN active_sessions
                                     ELSE PopSession(active_sessions, id)
               /\ scout_call' = ToolReturn("complete_discovery", id, ~raised,
                                  IF raised THEN "unexpected_error" ELSE "none")
    /\ UNCHANGED << built, joined, serverVars, engineVars, close_tasks >>

NextScout ==
  \/ StartDiscovery
  \/ SessionIdles
  \/ RunCloseTask
  \/ ClickElement
  \/ ExecuteActions
  \/ GetPageInfo
  \/ SavePageMetadata
  \/ CompleteDiscovery

\* The discovery tools called in any order on any session id.
SpecScout == Init /\ [][NextScout]_vars

\* ================================================================ properties
Done(c) == pc[c] = "done"
Failed(c) == exc[c].type # "none"

LaunchStages == {"start", "launch", "new_context", "new_page"}
\* The stages at which the exception comes from a browser operation.
BrowserStages ==
  LaunchStages \cup {"goto", "start_action", "start_wait", "fill_field",
                     "add_click", "sub_fill", "sub_select", "save",
                     "continue", "continue_wait"}

Pages(c) == wizard_structure[c].pages
Positions(c) ==
  UNION { {<<p, i>> : i \in 1..Len(Pages(c)[p].fields)} : p \in 1..Len(Pages(c)) }
FieldAt(c, pos) == Pages(c)[pos[1]].fields[pos[2]]
\* The value the map holds for a selector (None when it holds none).
Supplied(c, sel) ==
  IF sel \in DOMAIN field_values[c] THEN field_values[c][sel] ELSE NoneVal

\* Every required field has a value, and a group field given items declares
\* its add button.
ValidInput(c) ==
  \A pos \in Positions(c) :
    LET f == FieldAt(c, pos)
        v == Supplied(c, f.selector)
    IN /\ f.required => v.t # "none"
       /\ (f.field_type = "group" /\ v.t = "list" /\ v.items # << >>)
             => f.add_button_selector # NoSelector

IsGoto(e) == e.op = "goto"
IsRetryDelay(e) == e.op = "wait_for_timeout" /\ e.sel = <<"retry_delay">>
IsSelectCall(e) == e.op \in {"select_option", "select_option_label"}
IsScreenshot(e) == e.op = "screenshot"
Gotos(c) == SelectSeq(ops[c], IsGoto)
RetryDelays(c) == SelectSeq(ops[c], IsRetryDelay)
SelectCalls(c) == SelectSeq(ops[c], IsSelectCall)

\* Page j was completed: its continue click returned and so did the wait
\* for network idle that follows it.
PageSucceeded(c, j) ==
  \E i \in 1..(Len(ops[c]) - 1) :
    /\ ops[c][i] = ButtonClick(Pages(c)[j].continue_button, ops[c][i].page, TRUE)
    /\ ops[c][i + 1].op = "wait_for_load_state"
    /\ ops[c][i + 1].ok

\* ---------------------------------------------------------------------- C1
\* C1 (as claimed): when execute_wizard_atomically has finished, on any exit
\* path, the browser it launched is closed and the Playwright session it
\* started is stopped, also when browser.close() raised.
C1_ReleasedOnEveryExit ==
  \A c \in Tasks :
    Done(c) => browser_state[c] # "open" /\ playwright_state[c] # "running"

\* ---------------------------------------------------------------------- C2
\* C2: for a valid structure with N pages and a fully valid value map, when no
\* browser interaction raises, the run returns success with
\* pages_completed == N.
C2_ValidRunCompletes ==
  \A c \in Tasks :
    (Done(c) /\ ValidInput(c) /\ exc[c].stage \notin BrowserStages)
      => /\ result[c].success
         /\ result[c].pages_completed = wizard_structure[c].total_pages

\* A two-page run with an optional field left out has returned success.
C2_Witness ==
  \E c \in Tasks :
    /\ Done(c) /\ ValidInput(c) /\ result[c].success
    /\ wizard_structure[c].total_pages = 2
    /\ result[c].pages_completed = 2
    /\ \E pos \in Positions(c) : Supplied(c, FieldAt(c, pos).selector).t = "none"

\* ---------------------------------------------------------------------- C3
\* C3 (as claimed): after any fatal error, browser launch included, the result
\* has success == false and at least one screenshot.
C3_AnyFailureHasScreenshot ==
  \A c \in Tasks :
    (Done(c) /\ Failed(c))
      => ~result[c].success /\ Len(result[c].screenshots) >= 1

\* C3 (amended): after any fatal error the result has success == false; when
\* the error came after the browser launch the screenshots list is non-empty
\* and ends with the error capture (the empty placeholder when that capture
\* failed); when the launch itself failed the list is empty.
C3_FailureAfterLaunchHasScreenshot ==
  \A c \in Tasks :
    (Done(c) /\ Failed(c))
      => /\ ~result[c].success
         /\ IF exc[c].stage \in LaunchStages
            THEN result[c].screenshots = << >>
            ELSE /\ Len(result[c].screenshots) >= 1
                 /\ result[c].screenshots[Len(result[c].screenshots)]
                      \in {Image(<<"error">>), << >>}

\* Navigation was exhausted before any capture: the result holds exactly the
\* error screenshot.
C3_Witness ==
  \E c \in Tasks :
    /\ Done(c) /\ exc[c].stage = "goto"
    /\ result[c].screenshots = << Image(<<"error">>) >>

\* ---------------------------------------------------------------------- C4
RequiredWithoutValue(c, p) ==
  \E i \in 1..Len(Pages(c)[p].fields) :
    LET f == Pages(c)[p].fields[i]
    IN f.required /\ Supplied(c, f.selector).t = "none"

\* C4: if a required field on page k has no value (selector absent or mapped
\* to None) and pages 1..k-1 succeeded, the run fails with
\* pages_completed == k - 1.
C4_MissingRequiredStopsAtPage ==
  \A c \in Tasks :
    Done(c) =>
      \A k \in 1..Len(Pages(c)) :
        (RequiredWithoutValue(c, k) /\ \A j \in 1..(k - 1) : PageSucceeded(c, j))
          => ~result[c].success /\ result[c].pages_completed = k - 1

\* Page 1 was completed and page 2 holds a required field mapped to None.
C4_Witness ==
  \E c \in Tasks :
    /\ Done(c) /\ exc[c].stage = "missing_required"
    /\ PageSucceeded(c, 1) /\ RequiredWithoutValue(c, 2)
    /\ \E i \in 1..Len(Pages(c)[2].fields) :
         LET f == Pages(c)[2].fields[i]
         IN f.required /\ f.selector \in DOMAIN field_values[c]
    /\ result[c].pages_completed = 1

\* ---------------------------------------------------------------------- C5
\* C5: once the browser is up, a navigation whose first goto fails and which
\* the site answers within the five attempts does not fail the run (the run
\* succeeds when the input is valid and no later interaction raises); when
\* all five attempts fail the run fails with the error of the last attempt.
C5_RetryWithinBudget ==
  \A c \in Tasks :
    (Done(c) /\ exc[c].stage \notin LaunchStages) =>
      LET n == site[c].goto_failures
      IN /\ n \in 1..(TotalAttempts - 1) =>
              /\ exc[c].stage # "goto"
              /\ Len(Gotos(c)) = n + 1
              /\ Gotos(c)[n + 1].ok
              /\ (ValidInput(c) /\ exc[c].stage \notin BrowserStages)
                    => result[c].success
         /\ n >= TotalAttempts =>
              /\ ~result[c].success
              /\ result[c].error = Exc("TimeoutError", "goto", << >>, << >>, TotalAttempts)
              /\ result[c].error_type = "TimeoutError"

\* Four gotos failed, the fifth returned, and the run returned success.
C5_Witness ==
  \E c \in Tasks :
    /\ Done(c) /\ site[c].goto_failures = 4
    /\ Len(Gotos(c)) = 5 /\ ~Gotos(c)[1].ok
    /\ result[c].success

TopSelect(c) ==
  /\ pc[c] # "idle"
  /\ Pages(c)[1].fields # << >>
  /\ Pages(c)[1].fields[1].interaction = "select"
  /\ Supplied(c, Pages(c)[1].fields[1].selector).t = "str"
SelectProcessed(c) ==
  TopSelect(c) /\ (field_idx[c] > 1 \/ page_idx[c] > 1 \/ exc[c].stage = "fill_field")

HasApos(str) == \E i \in 1..Len(str) : str[i] = Apos
\* The live options are written with the typographic apostrophe, and one of
\* them reads like the supplied value.
TypographicOptions(live) ==
  /\ \A o \in live : ~HasApos(o.value) /\ ~HasApos(o.label)
  /\ \E o \in live : o.label = Typographic
\* No select_option call expired although an option matched.
NoExpiredCall(c) ==
  \A i \in 1..Len(SelectCalls(c)) :
    LET e == SelectCalls(c)[i]
    IN ~e.ok => ~Matches(live_select[c],
                         IF e.op = "select_option_label" THEN "label" ELSE "value",
                         e.val)

\* C7: live option text with the typographic apostrophe, supplied value with
\* the ASCII one: the literal-value call fails, the call with the replaced
\* value succeeds, and strategies three and four are not tried.
C7_UnicodeResolvedBySecondStrategy ==
  \A c \in Tasks :
    (/\ SelectProcessed(c)
     /\ Supplied(c, Pages(c)[1].fields[1].selector) = StrVal(Ascii)
     /\ TypographicOptions(live_select[c])
     /\ NoExpiredCall(c))
      => /\ SelectCalls(c) =
              << Op("select_option", c, Pages(c)[1].fields[1].selector, Ascii, FALSE),
                 Op("select_option", c, Pages(c)[1].fields[1].selector, Typographic, TRUE) >>
         /\ exc[c].stage # "fill_field"

\* The option carries a code as value and the typographic text as label; the
\* second call selected it.
C7_Witness ==
  \E c \in Tasks :
    /\ SelectProcessed(c)
    /\ Supplied(c, Pages(c)[1].fields[1].selector) = StrVal(Ascii)
    /\ live_select[c] = {Option(Code, Typographic)}
    /\ Len(SelectCalls(c)) = 2
    /\ SelectCalls(c)[2].ok

\* ---------------------------------------------------------------------- C8
\* The calls of the four strategies, in order, for a value string.
ExpectedCalls(str) ==
  << <<"select_option", str>>,
     <<"select_option", [i \in 1..Len(str) |-> IF str[i] = Apos THEN RSQ ELSE str[i]]>>,
     <<"select_option_label", str>>,
     <<"select_option_label", [i \in 1..Len(str) |-> IF str[i] = Apos THEN RSQ ELSE str[i]]>> >>

\* C8: a select interaction calls the strategies in the order value, replaced
\* value, label, replaced label; nothing is called after the first call that
\* returns; when all four fail the field fails with the ValueError that
\* carries the field and the error of the fourth call.
C8_StrategiesInOrder ==
  \A c \in Tasks :
    TopSelect(c) =>
      LET f == Pages(c)[1].fields[1]
          t == SelectCalls(c)
          e == ExpectedCalls(Supplied(c, f.selector).s)
      IN /\ Len(t) <= 4
         /\ \A i \in 1..Len(t) :
              /\ t[i].op = e[i][1] /\ t[i].val = e[i][2] /\ t[i].sel = f.selector
              /\ t[i].ok => i = Len(t)
         /\ SelectProcessed(c) =>
              /\ Len(t) >= 1
              /\ IF t[Len(t)].ok
                 THEN exc[c].stage # "fill_field"
                 ELSE /\ Len(t) = 4
                      /\ exc[c] = Exc("ValueError", "fill_field", f.field_id, f.selector, 4)

\* The two value calls expired, the label call selected the option.
C8_Witness ==
  \E c \in Tasks :
    /\ SelectProcessed(c)
    /\ Len(SelectCalls(c)) = 3
    /\ SelectCalls(c)[3].ok /\ SelectCalls(c)[3].op = "select_option_label"

\* All four calls failed.
C8_WitnessExhausted ==
  \E c \in Tasks :
    /\ SelectProcessed(c)
    /\ Len(SelectCalls(c)) = 4 /\ ~SelectCalls(c)[4].ok
    /\ exc[c].n = 4

\* ---------------------------------------------------------------------- C9
GroupStages == {"add_button_missing", "add_click", "sub_fill", "sub_select", "save"}
IsGroupStep(e) ==
  \/ e.op = "get_by_text_click" /\ e.sel = <<"Save">>
  \/ e.sel # << >> /\ e.sel[1] \in {"#add", "#sub"}
\* The field at pos is a group field whose value is the empty list.
EmptyGroup(c, pos) ==
  /\ pc[c] # "idle"
  /\ FieldAt(c, pos).field_type = "group"
  /\ Supplied(c, FieldAt(c, pos).selector) = ListVal(<< >>)

\* C9: a group field whose value is the empty list gets no add-button click,
\* no sub-field fill or select and no Save click, and it never raises, not
\* even the missing-required error when the field is required.
C9_EmptyListIsSkipped ==
  \A c \in Tasks :
    \A pos \in Positions(c) :
      EmptyGroup(c, pos) =>
        LET f == FieldAt(c, pos)
            only == \A q \in Positions(c) :
                      FieldAt(c, q).field_type = "group" => q = pos
        IN /\ \A i \in 1..Len(ops[c]) :
                ops[c][i].sel \notin {<<"#add", pos[1], pos[2]>>, f.selector}
           /\ exc[c].field_id # f.field_id
           /\ only => /\ \A i \in 1..Len(ops[c]) : ~IsGroupStep(ops[c][i])
                      /\ exc[c].stage \notin GroupStages \cup {"missing_required"}

\* A required group field without add button was given the empty list, and
\* the run went past it and returned success.
C9_Witness ==
  \E c \in Tasks :
    /\ Done(c) /\ result[c].success
    /\ \E pos \in Positions(c) :
         /\ EmptyGroup(c, pos)
         /\ FieldAt(c, pos).required
         /\ FieldAt(c, pos).add_button_selector = NoSelector

\* --------------------------------------------------------------------- C10
\* The images of the captures an execution made itself, in order.
RECURSIVE OwnImages(_)
OwnImages(trace) ==
  IF trace = << >> THEN << >>
  ELSE (IF IsScreenshot(Head(trace))
        THEN << TakeScreenshot(Head(trace).sel, Head(trace).ok) >>
        ELSE << >>) \o OwnImages(Tail(trace))
OwnPagesCompleted(c) == Cardinality({j \in 1..Len(Pages(c)) : PageSucceeded(c, j)})

\* C10: of two interleaved executions each holds its own Playwright session,
\* browser, context and page; every operation of an execution acts on the
\* handles that execution launched; and the counter and the screenshots an
\* execution returns are those of its own steps.
C10_ExecutionsAreIsolated ==
  \A c \in Tasks :
    /\ \A d \in Tasks \ {c} :
         \A h \in {"page", "playwright", "browser", "context"} :
           client[c][h] # NoHandle => client[c][h] # client[d][h]
    /\ \A i \in 1..Len(ops[c]) : ops[c][i].page = c
    /\ pc[c] \in {"finally", "done"} =>
         /\ result[c].pages_completed = OwnPagesCompleted(c)
         /\ LET own == OwnImages(ops[c])
            IN result[c].screenshots =
                 IF headless[c] /\ own # << >> THEN << own[Len(own)] >> ELSE own

\* Both executions are in the middle of the item loop, each with its own
\* browser open and its own operations logged.
C10_Witness ==
  /\ \A c \in Tasks :
       /\ pc[c] = "group_sub" /\ sub_idx[c] = 2
       /\ browser_state[c] = "open"
       /\ client[c].page = c
       /\ Len(ops[c]) > 0
  /\ client[1].browser # client[2].browser

\* Both executions returned success after interleaved steps.
C10_WitnessDone ==
  \A c \in Tasks : Done(c) /\ result[c].success /\ result[c].pages_completed = 1

\* --------------------------------------------------------------------- C11
IsPageShot(e) == e.op = "screenshot" /\ e.sel[1] = "page_filled"
\* The captures "page_<n>_filled" of an execution: one per page whose field
\* loop was run to its end.
PageShots(c) == SelectSeq(ops[c], IsPageShot)

\* C11 (as claimed): the pages are run in page_number order 1, 2, ..., N.
C11_PagesInNumberOrder ==
  \A c \in Tasks :
    \A i \in 1..Len(PageShots(c)) : PageShots(c)[i].sel = <<"page_filled", i>>

\* C11 (amended): the page loop runs the pages once each in the order of the
\* pages list, never skipping or repeating one: the i-th page run is the i-th
\* page of the list, each page is left by its own continue button, and a
\* successful run has run all N.
C11_PagesInListOrder ==
  \A c \in Tasks :
    LET shots == PageShots(c)
    IN /\ Len(shots) <= Len(Pages(c))
       /\ \A i \in 1..Len(shots) :
            shots[i].sel = <<"page_filled", Pages(c)[i].page_number>>
       /\ \A i \in 1..Len(ops[c]) :
            IsPageShot(ops[c][i]) =>
              LET n == Len(SelectSeq(SubSeq(ops[c], 1, i), IsPageShot))
              IN /\ i < Len(ops[c]) =>
                      ops[c][i + 1] = ButtonClick(Pages(c)[n].continue_button,
                                                  c, ops[c][i + 1].ok)
                 /\ \A k \in 1..(i - 1) :
                      (ops[c][k].sel # << >> /\ ops[c][k].sel[1] = "#f")
                        => ops[c][k].sel[2] <= n
       /\ (pc[c] \in {"finally", "done"} /\ result[c].success)
            => Len(shots) = Len(Pages(c))

\* A structure listing page_number 2 before page_number 1 was accepted and
\* run to success: the page numbered 2 was run first.
C11_Witness ==
  \E c \in Tasks :
    /\ Done(c) /\ result[c].success
    /\ validate_page_numbers(Pages(c))
    /\ Len(Pages(c)) = 2 /\ Pages(c)[1].page_number = 2
    /\ Len(PageShots(c)) = 2
    /\ PageShots(c)[1].sel = <<"page_filled", 2>>

\* --------------------------------------------------------------------- C12
\* The last two operations logged are the continue click of page p and the
\* wait for network idle after it, and both returned.
ContinueJustSucceeded(trace, c, p) ==
  /\ Len(trace) >= 2
  /\ trace[Len(trace) - 1] = ButtonClick(Pages(c)[p].continue_button, c, TRUE)
  /\ trace[Len(trace)].op = "wait_for_load_state" /\ trace[Len(trace)].ok

\* C12: pages_completed starts at 0, never decreases, and grows by exactly 1
\* per page, in the step in which that page's continue click (and the wait
\* that follows it) has returned; a step that raises leaves it as it was, so
\* it always equals the number of pages whose continue action succeeded.
C12_CounterFollowsContinue ==
  /\ \A c \in Tasks : pages_completed[c] = 0
  /\ [][\A c \in Tasks :
          LET d == pages_completed'[c] - pages_completed[c]
          IN /\ d \in {0, 1}
             /\ d = 1 => /\ pc[c] = "page"
                         /\ ContinueJustSucceeded(ops'[c], c, page_idx[c])
                         /\ pages_completed'[c] = page_idx[c]
                         /\ exc'[c] = NoExc
             /\ (exc'[c] # exc[c]) => d = 0]_vars
  /\ [](\A c \in Tasks : pages_completed[c] = OwnPagesCompleted(c))

\* Page 1 was completed and the continue click of page 2 raised: the counter
\* stayed at 1.
C12_Witness ==
  \E c \in Tasks :
    /\ Done(c) /\ exc[c].stage = "continue"
    /\ page_idx[c] = 2
    /\ pages_completed[c] = 1 /\ result[c].pages_completed = 1

\* --------------------------------------------------------------------- C13
IsErrorShot(e) == e.op = "screenshot" /\ e.sel = <<"error">>
IsClose(e) == e.op \in {"browser_close", "playwright_stop"}
ErrorShots(c) == SelectSeq(ops[c], IsErrorShot)
\* The except block has run.
Handled(c) == pc[c] \in {"finally", "done"} /\ Failed(c)

\* C13 (as claimed): on every fatal error exactly one error screenshot capture
\* is attempted.
C13_OneErrorCaptureAlways ==
  \A c \in Tasks : Handled(c) => Len(ErrorShots(c)) = 1

\* C13 (amended): on a fatal error raised after the browser launch exactly one
\* error capture is attempted, after the failing step and before the close
\* (after a failed launch none is); whether or not that capture succeeds, the
\* result carries the error that was raised, its type, and pages_completed as
\* it was when the error was raised.
C13_OneErrorCaptureAfterLaunch ==
  \A c \in Tasks :
    /\ pc[c] \notin {"finally", "done"} => ErrorShots(c) = << >>
    /\ ~Failed(c) => ErrorShots(c) = << >>
    /\ Handled(c) =>
         /\ Len(ErrorShots(c)) = IF exc[c].stage \in LaunchStages THEN 0 ELSE 1
         /\ \A i \in 1..Len(ops[c]) :
              IsErrorShot(ops[c][i]) =>
                /\ \A k \in 1..(i - 1) : ~IsClose(ops[c][k])
                /\ \A k \in (i + 1)..Len(ops[c]) : IsClose(ops[c][k])
         /\ ~result[c].success
         /\ result[c].error = exc[c]
         /\ result[c].error_type = exc[c].type
         /\ result[c].pages_completed = pages_completed[c]
         /\ result[c].pages_completed = OwnPagesCompleted(c)

\* A continue click raised, the error capture failed too, and the result still
\* carries the error of the continue click.
C13_Witness ==
  \E c \in Tasks :
    /\ Done(c) /\ exc[c].stage = "continue"
    /\ Len(ErrorShots(c)) = 1 /\ ~ErrorShots(c)[1].ok
    /\ result[c].error = exc[c] /\ result[c].error_type = "ValueError"
    /\ ops[c][Len(ops[c])].op = "playwright_stop"

\* --------------------------------------------------------------------- C14
\* The operations a step has added to the log of execution c.
Added(c) == SubSeq(ops'[c], Len(ops[c]) + 1, Len(ops'[c]))

\* C14: a fatal error aborts the run at once: the step that raises logs
\* nothing after the operation that failed, the run is from then on in its
\* except / finally part, and every browser operation that follows is the
\* error screenshot or the close.
C14_FatalErrorAborts ==
  /\ [](\A c \in Tasks : Failed(c) => pc[c] \in {"except", "finally", "done"})
  /\ [][\A c \in Tasks :
          /\ Failed(c) =>
               /\ exc'[c] = exc[c]
               /\ \A i \in 1..Len(Added(c)) :
                    IsErrorShot(Added(c)[i]) \/ IsClose(Added(c)[i])
          /\ (~Failed(c) /\ exc'[c] # exc[c]) =>
               /\ \A i \in 1..(Len(Added(c)) - 1) :
                    Added(c)[i].ok \/ IsSelectCall(Added(c)[i])
                      \/ IsGoto(Added(c)[i]) \/ IsScreenshot(Added(c)[i])
               /\ Added(c) # << >> =>
                    ~Added(c)[Len(Added(c))].ok]_vars

\* The fill of a field on page 1 of a two-page structure raised: the log ends
\* with that fill, the error screenshot and the close, and no continue click,
\* no later field and no extraction was performed.
C14_Witness ==
  \E c \in Tasks :
    /\ Done(c) /\ exc[c].stage = "fill_field"
    /\ Len(Pages(c)) = 2 /\ page_idx[c] = 1
    /\ Len(ops[c]) >= 4
    /\ LET n == Len(ops[c])
       IN /\ ops[c][n - 3].op = "fill" /\ ~ops[c][n - 3].ok
          /\ IsErrorShot(ops[c][n - 2])
          /\ IsClose(ops[c][n - 1]) /\ IsClose(ops[c][n])
    /\ \A i \in 1..Len(ops[c]) : ops[c][i].op # "extract" /\ ~IsPageShot(ops[c][i])

\* --------------------------------------------------------------------- C15
Returned(c) == pc[c] \in {"finally", "done"}
\* The result's list is exactly the capture made last, and that capture is
\* the one labelled label.
OnlyLastCapture(c, label) ==
  LET shots == SelectSeq(ops[c], IsScreenshot)
  IN /\ shots # << >>
     /\ shots[Len(shots)].sel = label
     /\ result[c].screenshots =
          << TakeScreenshot(label, shots[Len(shots)].ok) >>

\* C15 (as claimed): in reduced-payload mode every failed result's list is
\* exactly the error screenshot.
C15_ReducedFailureIsErrorShot ==
  \A c \in Tasks :
    (Returned(c) /\ headless[c] /\ ~result[c].success)
      => OnlyLastCapture(c, <<"error">>)

\* C15 (amended): in reduced-payload mode a successful result's list is
\* exactly the final-results capture, and a failed result's list is exactly
\* the error capture when the error came after the browser launch and empty
\* when the launch failed; in full mode the list holds every capture of the
\* run in capture order.  A failed capture stands in the list as the empty
\* placeholder.
C15_PayloadByMode ==
  \A c \in Tasks :
    Returned(c) =>
      IF ~headless[c]
      THEN result[c].screenshots = OwnImages(ops[c])
      ELSE IF result[c].success
      THEN OnlyLastCapture(c, <<"final_results">>)
      ELSE IF exc[c].stage \in LaunchStages
      THEN result[c].screenshots = << >>
      ELSE OnlyLastCapture(c, <<"error">>)

\* A reduced-payload run failed at a continue click after three captures and
\* returned the error capture alone.
C15_Witness ==
  \E c \in Tasks :
    /\ Done(c) /\ headless[c] /\ exc[c].stage = "continue"
    /\ Len(OwnImages(ops[c])) >= 3
    /\ result[c].screenshots = << Image(<<"error">>) >>

\* A full-mode run returned success with all its captures, four or more.
C15_WitnessFull ==
  \E c \in Tasks :
    /\ Done(c) /\ ~headless[c] /\ result[c].success
    /\ Len(result[c].screenshots) >= 4
    /\ result[c].screenshots = OwnImages(ops[c])

\* --------------------------------------------------------------------- C16
\* A page had been reached: a goto of the navigation loop returned.
PageReached(c) == \E i \in 1..Len(ops[c]) : IsGoto(ops[c][i]) /\ ops[c][i].ok

\* C16: a run that fails after a page had been reached returns a failure
\* result that reports pages_completed (the number of pages completed before
\* the failure) and a non-empty screenshots list, in reduced-payload and in
\* full mode, whichever later step failed.
C16_FailureReportsProgress ==
  \A c \in Tasks :
    (Returned(c) /\ Failed(c) /\ PageReached(c))
      => /\ ~result[c].success
         /\ "pages_completed" \in DOMAIN result[c]
         /\ result[c].pages_completed = OwnPagesCompleted(c)
         /\ "screenshots" \in DOMAIN result[c]
         /\ Len(result[c].screenshots) >= 1
         /\ headless[c] => Len(result[c].screenshots) = 1
         /\ ~headless[c] => Len(result[c].screenshots) >= 2

\* In reduced-payload mode page 1 was completed, then a required field of
\* page 2 had no value: the result reports one page and one screenshot.
C16_Witness ==
  \E c \in Tasks :
    /\ Done(c) /\ headless[c] /\ PageReached(c)
    /\ exc[c].stage = "missing_required"
    /\ result[c].pages_completed = 1
    /\ Len(result[c].screenshots) = 1

\* --------------------------------------------------------------------- C17
\* The position in the pages list of the page numbered n.
ListPosition(c, n) == CHOOSE j \in 1..Len(Pages(c)) : Pages(c)[j].page_number = n
\* The stage of the run an operation belongs to: 1 navigation, 2 initial
\* capture, 3 start action, 3 + p page p of the list, then extraction, error
\* capture and close; 0 for an operation that belongs to the stage of the
\* operation before it (a wait, a sub-field call, the Save click).
StageOf(c, e) ==
  LET n == Len(Pages(c))
  IN IF IsGoto(e) \/ IsRetryDelay(e) THEN 1
     ELSE IF IsClose(e) THEN n + 6
     ELSE IF IsErrorShot(e) THEN n + 5
     ELSE IF e.op = "extract" THEN n + 4
     ELSE IF IsScreenshot(e) THEN
            (IF e.sel = <<"initial_page">> THEN 2
             ELSE IF e.sel = <<"after_start_action">> THEN 3
             ELSE IF IsPageShot(e) THEN 3 + ListPosition(c, e.sel[2])
             ELSE n + 4)
     ELSE IF e = ButtonClick(wizard_structure[c].start_action, c, e.ok) THEN 3
     ELSE IF \E j \in 1..n : e = ButtonClick(Pages(c)[j].continue_button, c, e.ok)
     THEN 3 + (CHOOSE j \in 1..n : e = ButtonClick(Pages(c)[j].continue_button, c, e.ok))
     ELSE IF e.sel # << >> /\ e.sel[1] \in {"#f", "#add"} THEN 3 + e.sel[2]
     ELSE 0
RECURSIVE StageAt(_, _)
StageAt(c, i) ==
  IF i = 0 THEN 0
  ELSE IF StageOf(c, ops[c][i]) # 0 THEN StageOf(c, ops[c][i])
  ELSE StageAt(c, i - 1)

\* C17: the browser operations of a run come in the order launch, navigation,
\* start action (only when one is declared), page 1 to page N of the list
\* (its fields, its capture, its continue click), extraction, close; the
\* extraction comes only after all N pages were completed, and nothing
\* follows the close.
C17_OperationsInOrder ==
  /\ [](\A c \in Tasks :
          /\ ops[c] # << >> => playwright_state[c] # "none"
          /\ \A i \in 1..Len(ops[c]) :
               /\ i > 1 => StageAt(c, i - 1) <= StageAt(c, i)
               /\ StageAt(c, i) = 3 => wizard_structure[c].start_action # NoStartAction
               /\ ops[c][i].op = "extract" =>
                    /\ OwnPagesCompleted(c) = Len(Pages(c))
                    /\ \A j \in 1..Len(Pages(c)) :
                         \E k \in 1..(i - 1) : StageAt(c, k) = 3 + j
               /\ (IsPageShot(ops[c][i]) /\ i < Len(ops[c])) =>
                    StageOf(c, ops[c][i + 1]) = StageAt(c, i)
               /\ IsClose(ops[c][i]) => \A k \in (i + 1)..Len(ops[c]) : IsClose(ops[c][k]))
  /\ [][\A c \in Tasks : Done(c) => ops'[c] = ops[c]]_vars

\* A run with a start action and two pages, a field on each, went through
\* every stage and closed.
C17_Witness ==
  \E c \in Tasks :
    /\ Done(c) /\ result[c].success
    /\ wizard_structure[c].start_action # NoStartAction
    /\ Len(Pages(c)) = 2
    /\ \A j \in 1..2 : \E k \in 1..Len(ops[c]) :
         ops[c][k].op = "fill" /\ StageAt(c, k) = 3 + j
    /\ ops[c][Len(ops[c])].op = "playwright_stop"
    /\ StageAt(c, Len(ops[c])) = 8

\* --------------------------------------------------------------------- C18

\* C18: when every awaited browser operation returns or raises, a started
\* execution eventually is closed and has returned a result; the except block
\* is left only for the close; the navigation loop makes at most
\* max_retries + 1 attempts.
C18_EveryRunCloses ==
  /\ \A c \in Tasks : (pc[c] # "idle") ~> (Done(c) /\ result[c] # NoResult)
  /\ [][\A c \in Tasks : (pc[c] = "except" /\ pc'[c] # "except") =>
          /\ pc'[c] = "finally"
          /\ result'[c] # NoResult]_vars
  /\ [][\A c \in Tasks : (pc[c] = "finally" /\ pc'[c] # "finally") => Done(c)']_vars
  /\ [](\A c \in Tasks : Len(Gotos(c)) <= TotalAttempts /\ attempt[c] <= max_retries)

\* The navigation loop used up every attempt, the run went through the
\* except block and the close, and returned the failure.
C18_Witness ==
  \E c \in Tasks :
    /\ Done(c)
    /\ Len(Gotos(c)) = TotalAttempts
    /\ \A i \in 1..TotalAttempts : ~Gotos(c)[i].ok
    /\ result[c] # NoResult /\ ~result[c].success
    /\ \E i \in 1..Len(ops[c]) : IsClose(ops[c][i])

\* --------------------------------------------------------------------- C19
\* A capture at one of the four capture points of the try body.
IsCapturePoint(e) == IsScreenshot(e) /\ ~IsErrorShot(e)
CapturePoints(c) == SelectSeq(ops[c], IsCapturePoint)
\* The operations a step has added to the log.
StepLogged(c) == SubSeq(ops'[c], Len(ops[c]) + 1, Len(ops'[c]))

\* C19: a capture that fails at a capture point of the try body (initial page,
\* after the start action, after a page is filled, final results) puts the
\* empty placeholder at its place in the screenshot list; the step goes on
\* (when it ends in the except block, another operation of it raised); and
\* the returned success and pages_completed are those of the pages and the
\* extraction reached, whatever became of the captures.
C19_FailedCaptureIsNotFatal ==
  /\ [](\A c \in Tasks :
          /\ Len(CapturePoints(c)) <= Len(screenshots[c])
          /\ \A k \in 1..Len(CapturePoints(c)) :
               screenshots[c][k] = IF CapturePoints(c)[k].ok
                                   THEN Image(CapturePoints(c)[k].sel) ELSE << >>
          /\ Done(c) =>
               /\ result[c].success = (\E i \in 1..Len(ops[c]) : ops[c][i].op = "extract")
               /\ result[c].success => result[c].pages_completed = Len(Pages(c))
               /\ result[c].pages_completed = OwnPagesCompleted(c))
  /\ [][\A c \in Tasks :
          (\E i \in 1..Len(StepLogged(c)) :
              IsCapturePoint(StepLogged(c)[i]) /\ ~StepLogged(c)[i].ok) =>
            /\ pages_completed'[c] - pages_completed[c] =
                 (IF pc[c] = "page" /\ ContinueJustSucceeded(ops'[c], c, page_idx[c])
                  THEN 1 ELSE 0)
            /\ pc'[c] = "except" =>
                 LET last == ops'[c][Len(ops'[c])]
                 IN ~IsScreenshot(last) /\ ~last.ok]_vars

\* Every capture of a run with a start action failed, and the run succeeded
\* with its page completed and four placeholders in its list.
C19_Witness ==
  \E c \in Tasks :
    /\ Done(c) /\ result[c].success
    /\ result[c].pages_completed = 1
    /\ Len(CapturePoints(c)) = 4
    /\ \A k \in 1..4 : ~CapturePoints(c)[k].ok
    /\ screenshots[c] = << << >>, << >>, << >>, << >> >>

\* --------------------------------------------------------------------- C20
\* The extraction of the terminal page was attempted and raised.
ExtractionFailed(c) ==
  \E i \in 1..Len(ops[c]) : ops[c][i].op = "extract" /\ ~ops[c][i].ok

\* C20: when reading the terminal page raises, the run does not go to the
\* except block: it returns success with pages_completed = N and, as its
\* results, the degraded payload that reports the extraction error.
C20_ExtractionFailureIsNotFatal ==
  \A c \in Tasks :
    ExtractionFailed(c) =>
      /\ pc[c] \in {"finally", "done"}
      /\ exc[c] = NoExc
      /\ result[c] # NoResult
      /\ result[c].success
      /\ result[c].pages_completed = Len(Pages(c))
      /\ result[c].results = "Failed to extract results"
      /\ result[c].results # ExtractedResults(TRUE)
      /\ ~(\E i \in 1..Len(ops[c]) : IsErrorShot(ops[c][i]))

\* A two-page run whose extraction raised was closed and returned success
\* with both pages completed and the degraded payload.
C20_Witness ==
  \E c \in Tasks :
    /\ Done(c) /\ ExtractionFailed(c)
    /\ Len(Pages(c)) = 2
    /\ result[c].success /\ result[c].pages_completed = 2
    /\ result[c].results = "Failed to extract results"

\* --------------------------------------------------------------------- C21
\* The stages at which a field interaction raises: the interaction of a plain
\* field, and the add click, a sub-field call and the save click of a group.
InteractionStages == {"fill_field", "add_click", "sub_fill", "sub_select", "save"}
\* The error of the run comes from a field interaction.
InteractionFailed(c) == Failed(c) /\ exc[c].stage \in InteractionStages

\* C21 (as claimed): the error of every fatal interaction failure, the add,
\* sub-field and save steps of a repeatable group included, carries the
\* field_id and the selector of the failing field.
C21_InteractionErrorNamesField ==
  \A c \in Tasks :
    InteractionFailed(c) =>
      /\ exc[c].field_id # << >>
      /\ exc[c].selector # << >>

\* --------------------------------------------------------------------- C22
\* The browser calls an interaction kind consists of.
KindOps(kind) ==
  IF kind = "fill" THEN {"fill"}
  ELSE IF kind = "fill_enter" THEN {"fill", "press"}
  ELSE IF kind = "click" THEN {"click"}
  ELSE IF kind = "javascript_click" THEN {"evaluate_click"}
  ELSE {"select_option"}
\* The positions of the Save clicks in the log.
SavePositions(c) ==
  {i \in 1..Len(ops[c]) :
     ops[c][i].op = "get_by_text_click" /\ ops[c][i].sel = <<"Save">>}
\* The group field an add click belongs to.
GroupOfAdd(c, e) ==
  CHOOSE pos \in Positions(c) : FieldAt(c, pos).add_button_selector = e.sel
IsAddClick(c, e) ==
  /\ e.op = "click"
  /\ \E pos \in Positions(c) : FieldAt(c, pos).add_button_selector = e.sel
\* The position of the add click that opened the item saved at position i.
AddBefore(c, i) ==
  CHOOSE a \in 1..(i - 1) :
    /\ IsAddClick(c, ops[c][a])
    /\ \A b \in (a + 1)..(i - 1) : ~IsAddClick(c, ops[c][b])
\* How many items were saved up to position i (the one saved at i included).
SavedUpTo(c, i) == Cardinality({s \in SavePositions(c) : s <= i})

\* C22 (as claimed): for each item of a repeatable group, every declared
\* sub-field the item has a value for is filled with the calls of its own
\* interaction kind, whichever of the five kinds it declares, before the item
\* is saved.
C22_SubFieldsByOwnKind ==
  \A c \in Tasks :
    \A i \in SavePositions(c) :
      LET a == AddBefore(c, i)
          field == FieldAt(c, GroupOfAdd(c, ops[c][a]))
          item == Supplied(c, field.selector).items[SavedUpTo(c, i)]
      IN \A k \in 1..Len(field.sub_fields) :
           LET sub_field == field.sub_fields[k]
           IN Get(item, sub_field.field_id).t # "none" =>
                \A op \in KindOps(sub_field.interaction) :
                  \E j \in (a + 1)..(i - 1) :
                    /\ ops[c][j].sel = sub_field.selector
                    /\ ops[c][j].op = op

\* --------------------------------------------------------------------- C23
IsSave(e) == e.op = "get_by_text_click" /\ e.sel = <<"Save">>
\* The add clicks made on the add button of the field at pos.
AddClicks(c, pos) ==
  {i \in 1..Len(ops[c]) :
     ops[c][i].op = "click" /\ ops[c][i].sel = FieldAt(c, pos).add_button_selector}
\* The position in field.sub_fields of the sub-field with selector sel.
SubPosition(field, sel) ==
  CHOOSE k \in 1..Len(field.sub_fields) : field.sub_fields[k].selector = sel
\* The field at pos is a group field given a list of at least one item.
FilledGroup(c, pos) ==
  /\ pc[c] # "idle"
  /\ FieldAt(c, pos).field_type = "group"
  /\ Supplied(c, FieldAt(c, pos).selector).t = "list"
  /\ Len(Supplied(c, FieldAt(c, pos).selector).items) >= 1

\* C23: for a group field given m >= 1 items the engine performs, item by
\* item in list order, one click on the add button, the sub-field calls in
\* declared order with the item's values, and one Save click; the add click
\* of the next item comes right after the Save click of the item before;
\* and a run that got past the field made exactly m add clicks and m Save
\* clicks for it.
C23_AddFillSavePerItem ==
  \A c \in Tasks :
    /\ \A i \in 1..Len(ops[c]) :
         /\ (IsAddClick(c, ops[c][i]) /\ i < Len(ops[c])) =>
              IF ops[c][i].ok
              THEN IsGroupStep(ops[c][i + 1]) /\ ~IsAddClick(c, ops[c][i + 1])
              ELSE IsErrorShot(ops[c][i + 1])
         /\ (IsAddClick(c, ops[c][i])
               /\ \E a \in 1..(i - 1) : ops[c][a].sel = ops[c][i].sel) =>
              IsSave(ops[c][i - 1]) /\ ops[c][i - 1].ok
         /\ IsSave(ops[c][i]) =>
              LET a == AddBefore(c, i)
                  field == FieldAt(c, GroupOfAdd(c, ops[c][a]))
                  items == Supplied(c, field.selector).items
                  n == SavedUpTo(c, i)
              IN /\ n <= Len(items)
                 /\ Cardinality({b \in 1..a : ops[c][b].sel = ops[c][a].sel}) = n
                 /\ \A j \in (a + 1)..(i - 1) :
                      /\ ops[c][j].sel \in
                           {field.sub_fields[k].selector : k \in 1..Len(field.sub_fields)}
                      /\ LET sub_field == field.sub_fields[SubPosition(field, ops[c][j].sel)]
                             value_str == Str(Get(items[n], sub_field.field_id))
                         IN ops[c][j].val \in {value_str, ReplaceApos(value_str)}
                      /\ j > a + 1 =>
                           SubPosition(field, ops[c][j - 1].sel)
                             <= SubPosition(field, ops[c][j].sel)
    /\ \A pos \in Positions(c) :
         (FilledGroup(c, pos) /\ Done(c) /\ result[c].success) =>
           LET m == Len(Supplied(c, FieldAt(c, pos).selector).items)
           IN /\ Cardinality(AddClicks(c, pos)) = m
              /\ Cardinality(SavePositions(c)) = m
              /\ \A i \in SavePositions(c) : ops[c][i].ok

\* A group field was given two full items; the run succeeded with two add
\* clicks and two Save clicks, and both sub-fields were filled for each item.
C23_Witness ==
  \E c \in Tasks :
    /\ Done(c) /\ result[c].success
    /\ \E pos \in Positions(c) :
         /\ FilledGroup(c, pos)
         /\ Supplied(c, FieldAt(c, pos).selector).items = << ItemFull, ItemFull >>
         /\ Cardinality(AddClicks(c, pos)) = 2
    /\ Cardinality(SavePositions(c)) = 2
    /\ Cardinality({i \in 1..Len(ops[c]) : ops[c][i].op = "fill"}) = 2

\* --------------------------------------------------------------------- C24
StepOrder == << "load_schema", "validate_user_data", "load_structure",
                "map_fields", "execute" >>
\* The last call of the tool returned before it reached the engine.
Rejected(c) ==
  /\ tool_call[c].steps # << >>
  /\ tool_call[c].steps[Len(tool_call[c].steps)] # "execute"
\* A browser of the task exists or the engine is at work for it.
EngineEntered(c) ==
  \/ pc[c] # "idle"
  \/ playwright_state[c] # "none"
  \/ browser_state[c] # "none"
  \/ ops[c] # << >>

\* C24: the engine is entered, and a browser launched, only by a call that
\* loaded the schema, found user_data valid and loaded the wizard structure,
\* in that order; a call in which one of these steps fails returns
\* success = false (with validation_errors when the validation failed) and
\* launches no browser.
C24_EngineOnlyAfterValidation ==
  /\ [](\A c \in Tasks :
          /\ tool_call[c].steps = SubSeq(StepOrder, 1, Len(tool_call[c].steps))
          /\ EngineEntered(c) =>
               /\ tool_call[c].steps = StepOrder
               /\ tool_call[c].schema = "found"
               /\ tool_call[c].verdict = "valid"
               /\ tool_call[c].structure = "found"
          /\ Rejected(c) =>
               /\ ~EngineEntered(c)
               /\ tool_call[c].returned # NoResult
               /\ ~tool_call[c].returned.success
               /\ (tool_call[c].schema = "found" /\ tool_call[c].verdict = "invalid") =>
                    /\ tool_call[c].steps = << "load_schema", "validate_user_data" >>
                    /\ "validation_errors" \in DOMAIN tool_call[c].returned
                    /\ ~tool_call[c].returned.validation_errors.valid)
  /\ [][\A c \in Tasks :
          (tool_call'[c] # tool_call[c] /\ Rejected(c)') =>
            /\ pc'[c] = "idle"
            /\ playwright_state' = playwright_state
            /\ browser_state' = browser_state
            /\ ops' = ops]_vars

\* A call was made with user_data the schema rejects: it stopped at the
\* validation and returned the validation errors, and no browser exists.
C24_Witness ==
  \E c \in Tasks :
    /\ Rejected(c)
    /\ tool_call[c].verdict = "invalid"
    /\ "validation_errors" \in DOMAIN tool_call[c].returned
    /\ playwright_state[c] = "none" /\ ops[c] = << >>

\* A call passed the three steps and the engine launched a browser.
C24_WitnessEntered ==
  \E c \in Tasks :
    /\ tool_call[c].steps = StepOrder
    /\ browser_state[c] = "open"

\* --------------------------------------------------------------------- C25
BuiltNumbers == {built.pages[i].page_number : i \in 1..Len(built.pages)}

\* C25: a WizardStructure is constructed exactly when total_pages =
\* len(pages) >= 1 and the page numbers are the numbers 1..total_pages, each
\* once; every other page list is rejected at construction.
C25_PageNumbersExact ==
  built.model = "WizardStructure" =>
    (built.accepted <=>
       /\ built.total_pages = Len(built.pages)
       /\ built.total_pages >= 1
       /\ BuiltNumbers = 1..built.total_pages
       /\ \A i, j \in 1..Len(built.pages) :
            built.pages[i].page_number = built.pages[j].page_number => i = j)

\* A three-page structure whose pages are listed as 2, 3, 1 was constructed.
C25_Witness ==
  /\ built.model = "WizardStructure" /\ built.accepted
  /\ built.total_pages = 3 /\ Len(built.pages) = 3
  /\ [i \in 1..3 |-> built.pages[i].page_number] = << 2, 3, 1 >>

\* A page list with a duplicate and a gap was rejected.
C25_WitnessRejected ==
  /\ built.model = "WizardStructure" /\ ~built.accepted
  /\ built.total_pages = 3 /\ Len(built.pages) = 3
  /\ [i \in 1..3 |-> built.pages[i].page_number] = << 1, 1, 3 >>

\* --------------------------------------------------------------------- C26
\* The candidate field carries sub_fields: the list is given and not empty.
CarriesSubFields == built.sub_fields.given /\ Len(built.sub_fields.items) > 0

\* C26 (as claimed): a field is accepted exactly when it carries sub_fields
\* if and only if it is a group field.
C26_SubFieldsIffGroup ==
  built.model = "FieldStructure" =>
    (built.accepted <=> (CarriesSubFields <=> built.field_type = "group"))

\* C26 (amended): a group field is accepted exactly when it carries
\* sub_fields, given and not empty; a field of another type is accepted
\* whether it carries sub_fields or not.
C26_GroupNeedsSubFields ==
  built.model = "FieldStructure" =>
    (built.accepted <=> (built.field_type = "group" => CarriesSubFields))

\* A group field with an empty sub_fields list was rejected.
C26_Witness ==
  /\ built.model = "FieldStructure" /\ ~built.accepted
  /\ built.field_type = "group"
  /\ built.sub_fields.given /\ built.sub_fields.items = << >>

\* A text field that carries sub_fields was accepted.
C26_WitnessNonGroup ==
  /\ built.model = "FieldStructure" /\ built.accepted
  /\ built.field_type = "text"
  /\ CarriesSubFields

\* --------------------------------------------------------------------- C27
CommonKeys == {"success", "screenshots", "pages_completed", "execution_time_ms",
               "timestamp"}
SuccessKeys == {"wizard_id", "results"}
FailureKeys == {"error", "error_type"}

\* C27: every dict execute_wizard_atomically returns has the keys success,
\* screenshots, pages_completed, execution_time_ms and timestamp; it has
\* wizard_id and results exactly when success is true, and error and
\* error_type exactly when success is false.
C27_ResultShape ==
  \A c \in Tasks :
    /\ Done(c) => result[c] # NoResult
    /\ result[c] # NoResult =>
         /\ CommonKeys \subseteq DOMAIN result[c]
         /\ result[c].success \in BOOLEAN
         /\ DOMAIN result[c] \ CommonKeys =
              IF result[c].success THEN SuccessKeys ELSE FailureKeys
         /\ result[c].success <=> ~Failed(c)

\* A run failed after its first page and returned the failure dict.
C27_Witness ==
  \E c \in Tasks :
    /\ Done(c) /\ ~result[c].success
    /\ result[c].pages_completed = 1
    /\ DOMAIN result[c] = CommonKeys \cup FailureKeys
    /\ result[c].error_type = "ValueError"

\* A run returned the success dict.
C27_WitnessSuccess ==
  \E c \in Tasks :
    /\ Done(c) /\ result[c].success
    /\ DOMAIN result[c] = CommonKeys \cup SuccessKeys

\* ---------------------------------------------------------------- C28
\* The page, browser and Playwright session a session holds.
HeldBy(session) == << session.page, session.browser, session.playwright >>
\* The session registered under id is the same object with the same client
\* after the step.
SessionKept(id) ==
  /\ active_sessions'[id] = active_sessions[id]
  /\ HeldBy(sessions'[GetSession(id)]) = HeldBy(sessions[GetSession(id)])
\* The step is a federalscout_start_discovery call: each one draws a new
\* session id, so no two of them return the same thing.
StartsDiscovery ==
  scout_call'.tool = "start_discovery" /\ scout_call' # scout_call
\* The step is a federalscout_complete_discovery call for id.
Completes(id) ==
  scout_call'.tool = "complete_discovery" /\ scout_call'.session_id = id

\* C28: a registered session stays in the registry as the same session with
\* the same page, browser and Playwright session across every step that is
\* neither a complete_discovery call for it nor a new start_discovery call:
\* across every call of click_element, execute_actions, get_page_info and
\* save_page_metadata on any session id, whatever it returns, across a
\* complete_discovery call for another session, and however long the
\* session idles meanwhile.
C28_SessionPersists ==
  [][\A id \in SessionIds :
       (GetSession(id) # NoHandle /\ ~Completes(id) /\ ~StartsDiscovery)
          => SessionKept(id)]_vars
\* A session that was idle beyond the timeout is still registered with its
\* browser open after tool calls on it, a saved page among them.
C28_Witness ==
  \E id \in SessionIds :
    /\ GetSession(id) # NoHandle
    /\ sessions[GetSession(id)].expired
    /\ sessions[GetSession(id)].discovered
    /\ HeldBy(sessions[GetSession(id)]) = << "open", "open", "open" >>
    /\ scout_call.tool = "execute_actions"
    /\ scout_call.session_id = id
    /\ ~scout_call.success
    /\ Len(scout_call.attempted) = MaxActions

\* ---------------------------------------------------------------- C29
\* The last call was a federalscout_complete_discovery that returned
\* success for the session id.
CompletedOk(id) ==
  /\ scout_call.tool = "complete_discovery"
  /\ scout_call.session_id = id
  /\ scout_call.success
\* The session holds no open page, browser or Playwright session.
NothingOpen(session) ==
  \A part \in {"page", "browser", "playwright"} : session[part] # "open"

\* C29: once federalscout_complete_discovery has returned success for a
\* session id, the registry holds nothing under that id, so that a lookup
\* of it returns None, no registry entry names the session, and the page,
\* the browser and the Playwright session it held are closed.
C29_CompletedIsGone ==
  \A id \in SessionIds :
    CompletedOk(id) =>
      /\ GetSession(id) = NoHandle
      /\ \A other \in SessionIds : active_sessions[other] # id
      /\ NothingOpen(sessions[id])
\* A session with an open browser was completed and closed while another
\* session is still registered with its browser open.
C29_Witness ==
  \E id \in SessionIds, other \in SessionIds :
    /\ CompletedOk(id)
    /\ HeldBy(sessions[id]) = << "closed", "closed", "closed" >>
    /\ GetSession(other) = other
    /\ HeldBy(sessions[other]) = << "open", "open", "open" >>

\* ---------------------------------------------------------------- C30
\* The last call was a federalscout_execute_actions on a session the
\* registry held.
BatchCalled ==
  scout_call.tool = "execute_actions" /\ scout_call.error_type # "invalid_session"
\* The number of actions of the batch that succeeded.
SucceededCount ==
  Cardinality({i \in 1..Len(scout_call.attempted) : scout_call.attempted[i].succeeded})
\* The result carries the counts and they add up: every action was gone
\* through in list order, completed_count counts the ones that succeeded,
\* failed_actions lists the others.
CountsAddUp ==
  /\ scout_call.total_actions # NoCount
  /\ scout_call.completed_count # NoCount
  /\ Len(scout_call.attempted) = scout_call.total_actions
  /\ \A i \in 1..Len(scout_call.attempted) : scout_call.attempted[i].action_index = i
  /\ scout_call.completed_count + Len(scout_call.failed_actions) = scout_call.total_actions
  /\ scout_call.completed_count = SucceededCount
  /\ \A i \in 1..Len(scout_call.attempted) :
       ~scout_call.attempted[i].succeeded <=>
          \E k \in 1..Len(scout_call.failed_actions) : scout_call.failed_actions[k] = i

C30_WitnessNoCounts ==
  /\ BatchCalled
  /\ ~scout_call.success
  /\ Len(scout_call.attempted) = MaxActions
  /\ scout_call.attempted[MaxActions].succeeded

\* --------------------------------------------------------------------- C31
\* An operation on a declared field or on its add button: its selector
\* names the page (position in the list) and the position of the field.
IsFieldOp(e) == Len(e.sel) = 3 /\ e.sel[1] \in {"#f", "#add"}
\* The continue click of the page at position p of the list.
IsContinueOf(c, p, e) ==
  \E ok \in BOOLEAN : e = ButtonClick(Pages(c)[p].continue_button, e.page, ok)

\* C31: the operations on the fields of one page come in the declared order
\* of the fields; the capture "page_<n>_filled" of a page comes after every
\* operation on its fields and is followed at once by the page's continue
\* click; and an operation on a field of page k + 1 comes only after the
\* continue click of page k returned and the wait for network idle that
\* follows it returned too.
C31_PageStepsInOrder ==
  \A c \in Tasks :
    /\ \A i \in 1..Len(ops[c]), j \in 1..Len(ops[c]) :
         (i < j /\ IsFieldOp(ops[c][i]) /\ IsFieldOp(ops[c][j])
                /\ ops[c][i].sel[2] = ops[c][j].sel[2])
            => ops[c][i].sel[3] <= ops[c][j].sel[3]
    /\ \A s \in 1..Len(ops[c]) :
         IsPageShot(ops[c][s]) =>
           LET p == ListPosition(c, ops[c][s].sel[2])
           IN /\ \A i \in 1..Len(ops[c]) :
                   (IsFieldOp(ops[c][i]) /\ ops[c][i].sel[2] = p) => i < s
              /\ \A i \in 1..Len(ops[c]) : IsContinueOf(c, p, ops[c][i]) => i = s + 1
              /\ s < Len(ops[c]) => IsContinueOf(c, p, ops[c][s + 1])
    /\ \A i \in 1..Len(ops[c]) :
         (IsFieldOp(ops[c][i]) /\ ops[c][i].sel[2] > 1) =>
           \E k \in 1..(i - 2) :
             /\ IsContinueOf(c, ops[c][i].sel[2] - 1, ops[c][k])
             /\ ops[c][k].ok
             /\ ops[c][k + 1].op = "wait_for_load_state"
             /\ ops[c][k + 1].ok
\* A run over two pages filled a field on each and finished.
C31_Witness ==
  \E c \in Tasks :
    /\ Done(c) /\ result[c].success
    /\ Len(Pages(c)) = 2
    /\ \A p \in 1..2 : \E i \in 1..Len(ops[c]) :
         IsFieldOp(ops[c][i]) /\ ops[c][i].sel[2] = p /\ ops[c][i].ok
\* A run filled two fields of one page and finished.
C31_WitnessFields ==
  \E c \in Tasks :
    /\ Done(c) /\ result[c].success
    /\ \E i \in 1..Len(ops[c]), j \in 1..Len(ops[c]) :
         /\ IsFieldOp(ops[c][i]) /\ IsFieldOp(ops[c][j])
         /\ ops[c][i].sel[2] = ops[c][j].sel[2]
         /\ ops[c][i].sel[3] < ops[c][j].sel[3]

\* --------------------------------------------------------------------- C32
\* The structure declares a start_action.
DeclaresStart(c) == wizard_structure[c].start_action # NoStartAction
\* The click of _execute_start_action on the declared start action.
IsStartClick(c, e) ==
  \E ok \in BOOLEAN : e = ButtonClick(wizard_structure[c].start_action, e.page, ok)
StartClicks(c) == {i \in 1..Len(ops[c]) : IsStartClick(c, ops[c][i])}
\* The run has left the start of the wizard behind: the navigation
\* returned and the engine is past the step of the start action.
PastStart(c) ==
  /\ PageReached(c)
  /\ pc[c] \notin {"idle", "launch", "navigate", "initial", "start"}
\* The start action failed: its click raised, or the wait that follows it.
StartFailed(c) == exc[c].stage \in {"start_action", "start_wait"}

\* C32: a declared start action is clicked exactly once, after the goto
\* that returned and before any operation on a field; without a declared
\* start action no start click is made; and when the start action fails
\* nothing of a page is run and the result is a failure with
\* pages_completed = 0.
C32_StartActionOnce ==
  \A c \in Tasks :
    /\ ~DeclaresStart(c) => StartClicks(c) = {}
    /\ DeclaresStart(c) =>
         /\ Cardinality(StartClicks(c)) <= 1
         /\ PastStart(c) => Cardinality(StartClicks(c)) = 1
         /\ \A i \in StartClicks(c) :
              /\ \E g \in 1..(i - 1) : IsGoto(ops[c][g]) /\ ops[c][g].ok
              /\ \A j \in 1..Len(ops[c]) :
                   (IsFieldOp(ops[c][j]) \/ IsPageShot(ops[c][j])) => i < j
    /\ StartFailed(c) =>
         /\ StartClicks(c) # {}
         /\ \A j \in 1..Len(ops[c]) : ~IsFieldOp(ops[c][j]) /\ ~IsPageShot(ops[c][j])
         /\ pc[c] \in {"except", "finally", "done"}
         /\ Returned(c) =>
              /\ ~result[c].success
              /\ result[c].pages_completed = 0
\* A run with a declared start action clicked it, filled a field and
\* finished.
C32_Witness ==
  \E c \in Tasks :
    /\ Done(c) /\ result[c].success
    /\ DeclaresStart(c)
    /\ Cardinality(StartClicks(c)) = 1
    /\ \E j \in 1..Len(ops[c]) : IsFieldOp(ops[c][j])
\* The click of a declared start action raised and the run returned.
C32_WitnessFailed ==
  \E c \in Tasks :
    /\ Done(c) /\ exc[c].stage = "start_action"
    /\ result[c].pages_completed = 0
\* A run without a start action filled a field and finished.
C32_WitnessNone ==
  \E c \in Tasks :
    /\ Done(c) /\ result[c].success
    /\ ~DeclaresStart(c)
    /\ \E j \in 1..Len(ops[c]) : IsFieldOp(ops[c][j])

\* --------------------------------------------------------------------- C33
\* C33: every returned result of a run on a structure with N pages has
\* success = true exactly when its pages_completed = N, and a failure
\* result has pages_completed < N: nothing can fail once the last page is
\* counted, and the success dict is built only after the page loop.
C33_SuccessIffAllPages ==
  \A c \in Tasks :
    Returned(c) =>
      /\ result[c].success <=> result[c].pages_completed = Len(Pages(c))
      /\ ~result[c].success => result[c].pages_completed < Len(Pages(c))
      /\ result[c].pages_completed \in 0..Len(Pages(c))
\* The continue click of the last of two pages raised: the failure result
\* reports one page of two.
C33_Witness ==
  \E c \in Tasks :
    /\ Done(c)
    /\ Len(Pages(c)) = 2
    /\ exc[c].stage \in {"continue", "continue_wait"}
    /\ ~result[c].success
    /\ result[c].pages_completed = 1
\* A run over two pages succeeded.
C33_WitnessSuccess ==
  \E c \in Tasks :
    /\ Done(c) /\ result[c].success
    /\ Len(Pages(c)) = 2 /\ result[c].pages_completed = 2

\* --------------------------------------------------------------------- C34
\* The captures of a run, in order, and what each one put into the list:
\* the image, or the empty placeholder when the capture raised.
Shots(c) == SelectSeq(ops[c], IsScreenshot)
Captured(c) ==
  [i \in 1..Len(Shots(c)) |->
     IF Shots(c)[i].ok THEN <<"jpeg">> \o Shots(c)[i].sel ELSE << >>]
\* The labels of the captures of a successful run over the pages of c.
ExpectedLabels(c) ==
  << <<"initial_page">> >>
  \o (IF DeclaresStart(c) THEN << <<"after_start_action">> >> ELSE << >>)
  \o [j \in 1..Len(Pages(c)) |-> <<"page_filled", Pages(c)[j].page_number>>]
  \o << <<"final_results">> >>

\* C34: in full mode a successful run over N pages returns N + 2
\* screenshots, N + 3 with a declared start action: the initial page, the
\* page after the start action, one per page in list order, the final
\* results; a run that fails after the launch returned carries every
\* screenshot taken before the failure and then, as its last element, the
\* one error screenshot.
C34_FullModeScreenshots ==
  \A c \in Tasks :
    (Returned(c) /\ ~headless[c]) =>
      /\ result[c].success =>
           /\ Len(result[c].screenshots) =
                Len(Pages(c)) + 2 + (IF DeclaresStart(c) THEN 1 ELSE 0)
           /\ result[c].screenshots = Captured(c)
           /\ [i \in 1..Len(Shots(c)) |-> Shots(c)[i].sel] = ExpectedLabels(c)
      /\ (~result[c].success /\ exc[c].stage \notin LaunchStages) =>
           /\ result[c].screenshots = Captured(c)
           /\ Shots(c) # << >>
           /\ \A i \in 1..Len(Shots(c)) : IsErrorShot(Shots(c)[i]) <=> i = Len(Shots(c))
           /\ [i \in 1..(Len(Shots(c)) - 1) |-> Shots(c)[i].sel]
                = SubSeq(ExpectedLabels(c), 1, Len(Shots(c)) - 1)
\* In full mode a run with a start action over two pages succeeded with
\* five screenshots.
C34_Witness ==
  \E c \in Tasks :
    /\ Done(c) /\ ~headless[c] /\ result[c].success
    /\ DeclaresStart(c)
    /\ Len(Pages(c)) = 2
    /\ Len(result[c].screenshots) = 5
\* In full mode the continue click of the second page raised: initial page,
\* two page captures and the error screenshot.
C34_WitnessFailed ==
  \E c \in Tasks :
    /\ Done(c) /\ ~headless[c] /\ ~result[c].success
    /\ exc[c].stage = "continue"
    /\ Len(result[c].screenshots) = 4
    /\ result[c].screenshots[4] = <<"jpeg", "error">>

\* --------------------------------------------------------------------- C35
\* The declared fields whose interaction is click or javascript_click.
ClickPositions(c) ==
  {pos \in Positions(c) : FieldAt(c, pos).interaction \in {"click", "javascript_click"}}
\* The clicks made on the element of a field.
ClicksOn(c, field) ==
  {i \in 1..Len(ops[c]) : /\ ops[c][i].op \in {"click", "evaluate_click"}
                          /\ ops[c][i].sel = field.selector}
\* The field loop of the run has gone past the field at pos.
Passed(c, pos) ==
  /\ pc[c] \notin {"idle", "launch", "navigate", "initial", "start"}
  /\ PageReached(c)
  /\ \/ pos[1] < page_idx[c]
     \/ pos[1] = page_idx[c] /\ pos[2] < field_idx[c]
\* A group field given a list takes the branch of repeatable fields.
Repeatable(c, pos) ==
  /\ FieldAt(c, pos).field_type = "group"
  /\ Supplied(c, FieldAt(c, pos).selector).t = "list"
\* The element is clicked once when a value is supplied and never
\* otherwise; the click carries no value.
ClickedByPresence(c, pos) ==
  LET field == FieldAt(c, pos)
      value == Supplied(c, field.selector)
  IN /\ Cardinality(ClicksOn(c, field)) <= 1
     /\ value.t = "none" => ClicksOn(c, field) = {}
     /\ (Passed(c, pos) /\ value.t # "none") => Cardinality(ClicksOn(c, field)) = 1
     /\ \A i \in ClicksOn(c, field) : ops[c][i].val = << >>

\* C35 as stated: every field with interaction click or javascript_click is
\* clicked exactly once if and only if its supplied value is not None.
C35_ClickedIffValue ==
  \A c \in Tasks : \A pos \in ClickPositions(c) : ClickedByPresence(c, pos)

\* C35: a field with interaction click or javascript_click that is not a
\* group field given a list is clicked exactly once if and only if its
\* supplied value is not None, whatever the value: a checkbox given False is
\* clicked.  A group field given a list is run as a repeatable field and
\* its own element is not clicked.
C35_ClickedIffValueUnlessRepeatable ==
  \A c \in Tasks : \A pos \in ClickPositions(c) :
    /\ ~Repeatable(c, pos) => ClickedByPresence(c, pos)
    /\ Repeatable(c, pos) => ClicksOn(c, FieldAt(c, pos)) = {}
\* A checkbox given False was clicked once and the run finished.
C35_Witness ==
  \E c \in Tasks : \E pos \in ClickPositions(c) :
    /\ Done(c) /\ result[c].success
    /\ Supplied(c, FieldAt(c, pos).selector) = BoolVal(FALSE)
    /\ Cardinality(ClicksOn(c, FieldAt(c, pos))) = 1
\* A checkbox without a value was passed without a click.
C35_WitnessNone ==
  \E c \in Tasks : \E pos \in ClickPositions(c) :
    /\ Done(c) /\ result[c].success
    /\ FieldAt(c, pos).field_type = "checkbox"
    /\ Supplied(c, FieldAt(c, pos).selector) = NoneVal
    /\ ClicksOn(c, FieldAt(c, pos)) = {}

\* ---- C36 ----
\* C36: the field_id to selector join preserves every supplied value: for
\* every field of the structure whose field_id is a key of user_data, the
\* value the engine looks up for that field (field_values.get(selector)) is
\* exactly user_data[field_id], also when two fields declare one selector.
LookedUp(fld) == Get(joined.field_values, fld.selector)
C36_JoinPreservesValues ==
  \A i \in DOMAIN joined.fields :
    joined.fields[i].field_id \in DOMAIN joined.user_data
      => LookedUp(joined.fields[i]) = joined.user_data[joined.fields[i].field_id]
\* The join on two fields that share a selector and are given two values.
C36_SharedSelector ==
  \E i, j \in DOMAIN joined.fields :
    /\ i < j
    /\ joined.fields[i].selector = joined.fields[j].selector
    /\ joined.fields[i].field_id # joined.fields[j].field_id
    /\ {joined.fields[i].field_id, joined.fields[j].field_id}
         \subseteq DOMAIN joined.user_data
    /\ joined.user_data[joined.fields[i].field_id]
         # joined.user_data[joined.fields[j].field_id]
\* With distinct selectors the join does preserve every value.
C36_DistinctSelectorsPreserved ==
  (\A i, j \in DOMAIN joined.fields :
     i # j => joined.fields[i].selector # joined.fields[j].selector)
    => C36_JoinPreservesValues

\* ---- C37 ----
\* The run failed in the select of a sub-field of a repeatable group.
SubSelectFailed(c) == Failed(c) /\ exc[c].stage = "sub_select"
\* The calls the four-strategy list makes before it gives up on value_str.
GivesUpAfter(value_str, page, sel) ==
  TryStrategies(Strategies(value_str), 1, page, sel, {}, {})

\* C37 (as claimed): a select sub-field of a repeatable group is resolved
\* with the four strategies of a top-level select (value, Unicode value,
\* label, Unicode label): it fails only after all four were called and
\* failed, so it succeeds whenever any of the four would.
C37_SubSelectFourStrategies ==
  \A c \in Tasks :
    SubSelectFailed(c) =>
      LET calls == SelectCalls(c)
          n == Len(calls)
      IN /\ n >= 4
         /\ SubSeq(calls, n - 3, n)
              = GivesUpAfter(calls[n - 3].val, calls[n].page, calls[n].sel)
\* A sub-field select that failed on a live select whose third call would
\* have returned: the option is there, the two value calls timed out.
C37_FailedWithOptionPresent ==
  \E c \in Tasks :
    /\ SubSelectFailed(c)
    /\ Len(SelectCalls(c)) >= 2
    /\ LET calls == SelectCalls(c)
       IN Matches(live_select[c], "label", calls[Len(calls) - 1].val)
\* What the code does: a failed sub-field select made exactly the two value
\* calls, the second with the Unicode apostrophe.
C37_SubSelectTwoStrategies ==
  \A c \in Tasks :
    SubSelectFailed(c) =>
      LET calls == SelectCalls(c)
          n == Len(calls)
      IN /\ n >= 2
         /\ ~calls[n].ok /\ ~calls[n - 1].ok
         /\ calls[n].op = "select_option" /\ calls[n - 1].op = "select_option"
         /\ calls[n].val = ReplaceApos(calls[n - 1].val)

\* ---- C38 ----
\* The last tool call was a federalscout_start_discovery that returned
\* success == false for the session id it drew.
StartFailedFor(id) ==
  /\ scout_call.tool = "start_discovery"
  /\ ~scout_call.success
  /\ scout_call.session_id = id

\* C38 (as claimed): when federalscout_start_discovery returns
\* success == false, the session it created is not left in the registry and
\* its browser is not left open.
C38_FailedStartLeavesNothing ==
  \A id \in SessionIds :
    StartFailedFor(id) =>
      /\ GetSession(id) = NoHandle
      /\ sessions[id].browser # "open"
\* A start that failed in the navigation: the session is registered, the
\* browser it launched is open.
C38_FailedStartLeftOpen ==
  \E id \in SessionIds :
    /\ StartFailedFor(id)
    /\ scout_call.error_type = "navigation_failed"
    /\ GetSession(id) = id
    /\ sessions[id].browser = "open"
\* What the code does: right after a failed start the session is registered.
C38_FailedStartStaysRegistered ==
  [][\A id \in SessionIds :
       (StartFailedFor(id)' /\ scout_call' # scout_call) => GetSession(id)' = id]_vars

\* ---- C39 ----
\* This step is a call of one of the tools that take a session_id, with id.
CallsToolOn(id) ==
  /\ scout_call' # scout_call
  /\ scout_call'.tool # "start_discovery"
  /\ scout_call'.session_id = id
\* The session that id named was idle for longer than the session timeout.
IdleTooLong(id) == sessions[id].created /\ sessions[id].expired

\* C39 (as claimed): a session idle for longer than the session timeout is
\* not usable any more: every later tool call with its session_id is
\* rejected as invalid_session, and the session is out of the registry with
\* its browser closed.
C39_ExpiredSessionRejected ==
  [][\A id \in SessionIds :
       (CallsToolOn(id) /\ IdleTooLong(id)) =>
         /\ scout_call'.error_type = "invalid_session"
         /\ GetSession(id)' = NoHandle
         /\ sessions'[id].browser # "open"]_vars
\* What the code does: only the registry decides; a call on an expired
\* session that is still registered is never rejected as invalid_session.
C39_RegisteredNeverRejected ==
  [][\A id \in SessionIds :
       (CallsToolOn(id) /\ GetSession(id) # NoHandle) =>
         scout_call'.error_type # "invalid_session"]_vars
\* and once the cleanup of a later start_discovery has popped the expired
\* session, every call with its id is rejected.
C39_PoppedRejected ==
  [][\A id \in SessionIds :
       (CallsToolOn(id) /\ GetSession(id) = NoHandle) =>
         scout_call'.error_type = "invalid_session"]_vars

\* ---- C40 ----
\* The request was served: it got its result, its 202 or its 204.
Served(h) == h.kind \in {"result", "accepted", "no_content"}
IsToolRequest(h) == h.method \in {"tools/list", "tools/call"}
\* session_id was issued by an earlier initialize and not removed by DELETE.
LiveSession(session_id) ==
  session_id \in 1..issued /\ session_id \notin deleted
\* A tools/list or tools/call request is served only with a valid token and
\* a live session id.
ToolsNeedTokenAndSession ==
  (IsToolRequest(http) /\ Served(http)) =>
    /\ http.token = "valid"
    /\ LiveSession(http.session_id)
\* initialize is served whatever token and session id it carries.
InitializeNeedsNeither == http.method = "initialize" => Served(http)
\* This step is a request other than initialize that carries the id of a
\* session DELETE has removed.
RequestAfterDelete ==
  /\ http' # http
  /\ http'.method # "initialize"
  /\ http'.session_id \in deleted

\* C40: a tools/list or tools/call request is served only if it carries a
\* valid OAuth token and a session id issued by an earlier initialize and not
\* since removed by DELETE; initialize requires neither; after DELETE of a
\* session every later request with that session id is rejected.
C40_ToolsNeedAuthAndSession ==
  /\ [](ToolsNeedTokenAndSession /\ InitializeNeedsNeither)
  /\ [][RequestAfterDelete => ~Served(http')]_vars
\* A tool request that was served on a live session while another session
\* was already deleted.
C40_Witness ==
  /\ IsToolRequest(http) /\ Served(http)
  /\ deleted # {}
\* A tool request with a valid token rejected for the id of a deleted session.
C40_WitnessRejected ==
  /\ IsToolRequest(http)
  /\ http.token = "valid"
  /\ http.session_id \in deleted
  /\ http.kind = "bad_request"
\* An initialize served without a token and without a session id.
C40_WitnessInitialize ==
  /\ http.method = "initialize"
  /\ http.token = "missing"
  /\ http.session_id = NoHandle
  /\ Served(http)

====
